---- MODULE Spec2Model ----
(***************************************************************************)
(* rabbit-communications: the routing and correlation layer above the      *)
(* broker client.  One Service (owner endpoint), one Communicator (peer    *)
(* endpoint, registered under the name "p" in a CommunicationsManager),    *)
(* and the broker queues "input" and "output" between them.                *)
(*                                                                         *)
(* The modelled sources are the latest versions of each class:             *)
(*   Service                src/src/CommunicatorManager.js  130-302        *)
(*   Communicator           src/src/index.js                 13-219        *)
(*   CommunicationsManager  src/src/CommunicationsManager.js   1-154       *)
(*   ControllablePromise    src/src/utils/ControllablePromise.js 19-59     *)
(*   ListenerContext        src/src/utils/ControllablePromise.js 61-94     *)
(*                                                                         *)
(* An async function is one action per stretch between two awaits.  User   *)
(* callbacks (listeners, interceptors) are inputs: each invocation picks   *)
(* its behaviour from a small set.  Interceptors have the documented       *)
(* koa shape `async (ctx, next) => { before; await next(); after }`; one   *)
(* may throw before or after next(), or return without calling next().     *)
(***************************************************************************)
EXTENDS Integers, Sequences, FiniteSets, TLC

\* ------------------------------------------------------------------ bounds
\* Messages the broker ever holds (all queues together).
MaxMsgs == 2
\* Messages the Service publishes with send().
MaxSends == 1
\* Deliveries of one message (a requeued message is redelivered).
MaxDeliveries == 2
\* ask() calls of the Communicator.
MaxAsks == 2
\* Interceptors registered with applyMiddleware.
MaxMiddleware == 2
\* send() and broadcast() calls of the application.
MaxCalls == 2

\* ------------------------------------------------------------------ values
\* JavaScript's undefined, for string-valued and for id-valued fields.
Undefined == "undefined"
NoId == 0

Subjects == {"s", "t"}
\* The names applyMiddleware can be scoped to; "p" is the registered peer.
Names == {"p", "q"}
\* The terminal output listener's place in a chain of interceptor ids.
Listener == 0

\* The message quoted by the timeout rejection (index.js:122).
TimeoutError == "The service did not respond within the allowed askTimeout milliseconds"

\* The errors thrown by constructors, start() and send(), by their first words.
NoSettingsError == "No settings passed to the constructor"
NameRequiredError == "Service name is required"
TargetRequiredError == "Target service name is required"
BothDisabledError == "Both input and output cannot be disabled"
NoClientError == "It is necessary to pass to the constructor either your own rabbitClient or rabbitOptions"
DiscardError == "There's no point to set shouldDiscardMessages flag to true"
ServiceNoListenerError == "Service input is enabled but no listener is provided"
CommunicatorNoListenerError == "Service output is enabled but no listener is provided"
OutputDisabledError == "Service output channel is disabled, can not send message"
InputDisabledError == "Service input channel is disabled, can not send message"
ListenerOnDisabledOutputError == "Service output channel is disabled, therefore output listener would never be called"
AlreadyRegisteredError == "Communicator for service is already registered"
NotRegisteredError == "No communicator registered for service"
TypeError == "TypeError: Cannot read property of undefined"

VARIABLES
    service,        \* the Service object (owner endpoint)
    communicator,   \* the Communicator object (peer endpoint)
    manager,        \* the CommunicationsManager object
    messages,       \* broker: every message published, with its queue and state
    callback,       \* per message: the consume callback invocation in flight
    askCalls,       \* per ask() call: its position, messageId and subject
    askMap,         \* Communicator.askMap: messageId -> promise (NoId: no entry)
    promises,       \* per ask() call: its ControllablePromise
    nextMessageId,  \* the ids nanoid has handed out so far
    registered,     \* history: per interceptor, in call order, the names it was scoped to
    settings,       \* the settings object handed to the constructors
    calls,          \* send / ask / broadcast calls of the application, in call order
    communicatorMap \* CommunicationsManager.communicatorMap: name -> Communicator

vars == <<service, communicator, manager, messages, callback,
          askCalls, askMap, promises, nextMessageId, registered,
          settings, calls, communicatorMap>>

Msgs == 1..Len(messages)
AskIds == 1..MaxAsks
MessageIds == 1..MaxAsks

\* ------------------------------------------------------------------ broker
\* The broker-client collaborator: publish, deliver, ack, nack.

Envelope(metadata, data) == [metadata |-> metadata, data |-> data]

\* A metadata map: the four protocol keys and two keys of the application,
\* num and str.  A key the map does not hold has the value Absent gives it.
Metadata(ask, subject, messageId, isReplyTo) ==
    [ask |-> ask, subject |-> subject, messageId |-> messageId, isReplyTo |-> isReplyTo,
     num |-> Undefined, str |-> Undefined]

\* The empty map {}.
PlainMetadata == Metadata(FALSE, Undefined, NoId, NoId)

Absent(key) == PlainMetadata[key]

\* Mutant: the left map wins on a key both hold.
SpreadLeftWins(a, b) ==
    [key \in DOMAIN PlainMetadata |-> IF a[key] # Absent(key) THEN a[key] ELSE b[key]]

\* The object spread {...a, ...b}: every key of b, and the keys of a that b
\* does not hold.
Spread(a, b) ==
    [key \in DOMAIN PlainMetadata |-> IF b[key] # Absent(key) THEN b[key] ELSE a[key]]

IdleCallback == [phase |-> "idle", i |-> 0, err |-> FALSE]

\* channel.publish(exchange, routingKey, envelope): the direct exchange routes
\* by the queue's name; the message waits in the queue, ready for delivery.
Publish(ms, queueName, envelope) ==
    Append(ms, [queue |-> queueName, envelope |-> envelope, state |-> "ready",
                log |-> <<>>, trace |-> <<>>, open |-> {}])

\* The broker hands message m to the consumer: it is unacked until settled.
\* The log records, per delivery, which handler ran, how it ended, and the
\* ack and nack calls made for that delivery.
Delivered(ms, m, handler, outcome) ==
    [ms EXCEPT ![m].state = "unacked",
               ![m].log = Append(@, [handler |-> handler, outcome |-> outcome,
                                     acks |-> 0, nacks |-> <<>>]),
               ![m].trace = <<>>,
               ![m].open = {}]

\* History of the latest delivery: function fn of the chain ran its code
\* before next() ("before"), after next() ("after"), or the terminal listener
\* ran ("listener"), and that code threw ("throw"); open holds the chain
\* positions that called next() and have not finished.
Traced(ms, m, tag, fn, threw, opened, closed) ==
    [ms EXCEPT ![m].trace = @ \o <<<<tag, fn>>>> \o
                               (IF threw THEN <<<<"throw", fn>>>> ELSE <<>>),
               ![m].open = (@ \cup opened) \ closed]

\* The handler of the delivery in flight has ended.
Outcome(ms, m, outcome) ==
    [ms EXCEPT ![m].log = [@ EXCEPT ![Len(@)].outcome = outcome]]

\* channel.ack(msg)
Ack(ms, m) ==
    [ms EXCEPT ![m].state = "acked",
               ![m].log = [@ EXCEPT ![Len(@)].acks = @ + 1]]

\* channel.nack(msg, multiple, requeue): with multiple, every unacked message
\* of the queue delivered up to msg is rejected as well.
Nack(ms, m, multiple, requeue) ==
    LET hit == IF multiple
               THEN {k \in 1..Len(ms) : /\ k <= m
                                        /\ ms[k].queue = ms[m].queue
                                        /\ ms[k].state = "unacked"}
               ELSE {m}
        to  == IF requeue THEN "ready" ELSE "dropped"
    IN  [k \in 1..Len(ms) |->
            IF k = m
            THEN [ms[k] EXCEPT !.state = to,
                               !.log = [@ EXCEPT ![Len(@)].nacks =
                                   Append(@, [multiple |-> multiple, requeue |-> requeue])]]
            ELSE IF k \in hit THEN [ms[k] EXCEPT !.state = to]
            ELSE ms[k]]

CanPublish == Len(messages) < MaxMsgs

\* A channel reference: undefined until getChannel resolves; an open channel
\* has run its onReconnect callback, which asserts the exchange, asserts the
\* queue, binds it, and for the consuming direction installs the consumer.
NoChannel == [open |-> FALSE, queue |-> Undefined, consumer |-> FALSE]

Channel(queueName, consumer) == [open |-> TRUE, queue |-> queueName, consumer |-> consumer]

CanDeliver(m, queueName) ==
    /\ messages[m].queue = queueName
    /\ messages[m].state = "ready"
    /\ Len(messages[m].log) < MaxDeliveries

LastDelivery(m) == messages[m].log[Len(messages[m].log)]

\* ------------------------------------------------------------------ Service

\* A call of the application: who was called, which method, for which name,
\* where the call stands, the error it threw, how many messages it published,
\* whether it was made before the callee's start() had completed, and for a
\* call of the manager the peers whose send() it still awaits.
\* metadata is the per-call metadata handed over; message is the message
\* whose listener made the call through ctx.reply, 0 for a call of the
\* application.
Call(who, op, target, pc, error, early) ==
    [who |-> who, op |-> op, target |-> target, pc |-> pc, error |-> error,
     published |-> 0, early |-> early, pending |-> {},
     metadata |-> PlainMetadata, message |-> 0]


\* Service.send(data, additionalMetadata): the payload published into the
\* output queue, metadata {...this.metadata, ...additionalMetadata}.
ServiceSendEnvelope(data, additionalMetadata) ==
    Envelope(Spread(service.metadata, additionalMetadata), data)

\* Mutant: an isReplyTo of the additional metadata is kept.
ContextReplyMetadataKeepingExtra(metadata, additionalMetadata) ==
    IF metadata.ask
    THEN Spread([PlainMetadata EXCEPT !.isReplyTo = metadata.messageId], additionalMetadata)
    ELSE additionalMetadata

\* ListenerContext.reply for a context built by the Service: an ask is answered
\* with isReplyTo stamped over the additional metadata.
ContextReplyMetadata(metadata, additionalMetadata) ==
    IF metadata.ask
    THEN [additionalMetadata EXCEPT !.isReplyTo = metadata.messageId]
    ELSE additionalMetadata

\* Mutant: the catch branch requeues exactly when it should discard.
ServiceCatchInverted(ms, m) == Nack(ms, m, FALSE, service.shouldDiscardMessages)

\* Mutant: the catch branch rejects every unacked message up to this one.
ServiceCatchMultiple(ms, m) == Nack(ms, m, TRUE, ~service.shouldDiscardMessages)

\* The catch branch of the Service's consume callback.
ServiceCatch(ms, m) == Nack(ms, m, FALSE, ~service.shouldDiscardMessages)

\* The ask branch after `await askListener(ctx)`.
ServiceAfterAskListener(ms, m) == ms

\* Mutant: the general branch returns without acknowledging.
ServiceAfterInputListenerReturning(ms, m) == ms

\* The general branch after `await this.inputListener(ctx)`.
ServiceAfterInputListener(ms, m) == Ack(ms, m)

\* The consume callback of the input queue, up to its first await.
ServiceConsume(m) ==
    /\ service.pc = "started"
    /\ service.isInputEnabled
    /\ service.inputChannel.consumer
    /\ CanDeliver(m, service.inputQueueName)
    /\ LET md == messages[m].envelope.metadata IN
        IF md.ask /\ md.subject # Undefined
        THEN IF md.subject \notin service.askListenersMap
             THEN /\ messages' = ServiceCatch(Delivered(messages, m, "none", "error"), m)
                  /\ UNCHANGED callback
             ELSE /\ messages' = Delivered(messages, m, "askListener", "running")
                  /\ callback' = [callback EXCEPT ![m].phase = "askListener"]
        ELSE IF ~service.inputListener
             THEN /\ messages' = ServiceCatch(Delivered(messages, m, "none", "error"), m)
                  /\ UNCHANGED callback
             ELSE /\ messages' = Delivered(messages, m, "inputListener", "running")
                  /\ callback' = [callback EXCEPT ![m].phase = "inputListener"]
    /\ UNCHANGED <<service, communicator, manager, askCalls, askMap, promises,
                   nextMessageId, registered,
                   settings, calls, communicatorMap>>

\* The listener awaited by the callback settles: it returns (ok) or throws.
ServiceListenerDone(m, outcome) ==
    /\ callback[m].phase \in {"askListener", "inputListener"}
    /\ messages[m].queue = service.inputQueueName
    /\ LET ended == Outcome(messages, m, outcome) IN
        messages' = IF outcome = "throw" THEN ServiceCatch(ended, m)
                    ELSE IF callback[m].phase = "askListener"
                         THEN ServiceAfterAskListener(ended, m)
                         ELSE ServiceAfterInputListener(ended, m)
    /\ callback' = [callback EXCEPT ![m] = IdleCallback]
    /\ UNCHANGED <<service, communicator, manager, askCalls, askMap, promises,
                   nextMessageId, registered,
                   settings, calls, communicatorMap>>

\* The listener in flight calls ctx.reply(ctx.data, extra), once per
\* invocation: Service.send with the metadata ListenerContext binds.
ServiceListenerReply(m, extra) ==
    /\ callback[m].phase \in {"askListener", "inputListener"}
    /\ callback[m].i = 0
    /\ service.isOutputEnabled
    /\ LET e == messages[m].envelope IN
        messages' = Publish(messages, service.outputQueueName,
            ServiceSendEnvelope(e.data, ContextReplyMetadata(e.metadata, extra)))
    /\ callback' = Append([callback EXCEPT ![m].i = 1], IdleCallback)
    /\ calls' = Append(calls, [Call("service", "reply", service.name, "returned",
                                     Undefined, FALSE)
                                  EXCEPT !.published = 1, !.metadata = extra, !.message = m])
    /\ UNCHANGED <<service, communicator, manager, askCalls, askMap, promises,
                   nextMessageId, registered,
                   settings, communicatorMap>>

\* A test channel publishes an envelope straight into the input queue.
TestPublish(metadata) ==
    /\ CanPublish
    /\ messages' = Publish(messages, service.inputQueueName,
                           Envelope(metadata, Len(messages) + 1))
    /\ callback' = Append(callback, IdleCallback)
    /\ UNCHANGED <<service, communicator, manager, askCalls, askMap, promises,
                   nextMessageId, registered,
                   settings, calls, communicatorMap>>

\* Service.send(data): publish a plain envelope into the output queue.
ServiceSend ==
    /\ service.pc = "started"
    /\ service.isOutputEnabled
    /\ CanPublish
    /\ Cardinality({k \in Msgs : messages[k].queue = service.outputQueueName}) < MaxSends
    /\ messages' = Publish(messages, service.outputQueueName,
                           ServiceSendEnvelope(Len(messages) + 1, PlainMetadata))
    /\ callback' = Append(callback, IdleCallback)
    /\ UNCHANGED <<service, communicator, manager, askCalls, askMap, promises,
                   nextMessageId, registered,
                   settings, calls, communicatorMap>>

\* A destructuring default: `key = d` takes d when the key is undefined.
Default(v, d) == IF v = Undefined THEN d ELSE v = "true"

\* namespace = 'rabbit-communications'
DefaultNamespace == "rabbit-communications"
Namespace(s) == IF s.namespace = Undefined THEN DefaultNamespace ELSE s.namespace

\* Mutant: the queue name leaves the namespace out.
QueueNameWithoutNamespace(namespace, name, direction) == name \o ":" \o direction

\* `${namespace}:${name}:input` and `${namespace}:${name}:output`
QueueName(namespace, name, direction) ==
    namespace \o ":" \o name \o ":" \o direction

\* Mutant: the constructor accepts discarding without input.
ServiceSettingsErrorWithoutDiscard(s) ==
    IF ~s.passed THEN NoSettingsError
    ELSE IF s.name = Undefined THEN NameRequiredError
    ELSE IF ~Default(s.isInputEnabled, TRUE) /\ ~Default(s.isOutputEnabled, TRUE)
         THEN BothDisabledError
    ELSE IF ~s.rabbitClient /\ ~s.rabbitOptions THEN NoClientError
    ELSE Undefined

\* The Service constructor's checks, in order; Undefined when all pass.
ServiceSettingsError(s) ==
    IF ~s.passed THEN NoSettingsError
    ELSE IF s.name = Undefined THEN NameRequiredError
    ELSE IF ~Default(s.isInputEnabled, TRUE) /\ ~Default(s.isOutputEnabled, TRUE)
         THEN BothDisabledError
    ELSE IF ~s.rabbitClient /\ ~s.rabbitOptions THEN NoClientError
    ELSE IF ~Default(s.isInputEnabled, TRUE) /\ Default(s.shouldDiscardMessages, FALSE)
         THEN DiscardError
    ELSE Undefined

\* The object `new Service(settings)` leaves, or the error it throws.  The
\* queue names are `${namespace}:${name}:input` and `...:output`; with one
\* Service and one namespace they are written "input" and "output".
ConstructService(s, inputQueueName, outputQueueName) ==
    [pc |-> IF ServiceSettingsError(s) = Undefined THEN "constructed" ELSE "threw",
     name |-> s.name, namespace |-> Namespace(s),
     inputQueueName |-> inputQueueName, outputQueueName |-> outputQueueName,
     isInputEnabled |-> Default(s.isInputEnabled, TRUE),
     isOutputEnabled |-> Default(s.isOutputEnabled, TRUE),
     shouldDiscardMessages |-> Default(s.shouldDiscardMessages, FALSE),
     inputListener |-> FALSE, askListenersMap |-> {},
     metadata |-> s.metadata,
     rabbitClient |-> s.rabbitClient,
     inputChannel |-> NoChannel, outputChannel |-> NoChannel,
     error |-> ServiceSettingsError(s)]

\* new Service(settings)
ServiceConstruct ==
    /\ service.pc = "none"
    /\ service' = ConstructService(settings, "input", "output")
    /\ UNCHANGED <<communicator, manager, messages, callback, askCalls, askMap,
                   promises, nextMessageId, registered, settings, calls, communicatorMap>>

\* service.addInputListener(fn), before start(); it throws when input is disabled.
AddInputListener ==
    /\ service.pc = "constructed"
    /\ service.isInputEnabled
    /\ ~service.inputListener
    /\ service' = [service EXCEPT !.inputListener = TRUE]
    /\ UNCHANGED <<communicator, manager, messages, callback, askCalls, askMap,
                   promises, nextMessageId, registered, settings, calls, communicatorMap>>

\* service.addAskListener(subject, fn), before start(); it throws when input or
\* output is disabled.
AddAskListener(subject) ==
    /\ service.pc = "constructed"
    /\ service.isInputEnabled
    /\ service.isOutputEnabled
    /\ subject \notin service.askListenersMap
    /\ service' = [service EXCEPT !.askListenersMap = @ \cup {subject}]
    /\ UNCHANGED <<communicator, manager, messages, callback, askCalls, askMap,
                   promises, nextMessageId, registered, settings, calls, communicatorMap>>

\* Mutant: the listener check of Service.start() is left out.
ServiceStartInputUnchecked(sv) ==
    IF ~sv.isInputEnabled THEN [sv EXCEPT !.pc = "started"]
    ELSE [sv EXCEPT !.pc = "openingInput"]

\* Service.start() from `if (this.isInputEnabled)` to the next await.
ServiceStartInput(sv) ==
    IF ~sv.isInputEnabled THEN [sv EXCEPT !.pc = "started"]
    ELSE IF ~sv.inputListener /\ sv.askListenersMap = {}
         THEN [sv EXCEPT !.pc = "failed", !.error = ServiceNoListenerError]
    ELSE [sv EXCEPT !.pc = "openingInput"]

\* Service.start() up to its first await.
ServiceStart ==
    /\ service.pc = "constructed"
    /\ service' = LET sv == [service EXCEPT !.rabbitClient = TRUE] IN
                  IF sv.isOutputEnabled THEN [sv EXCEPT !.pc = "openingOutput"]
                  ELSE ServiceStartInput(sv)
    /\ UNCHANGED <<communicator, manager, messages, callback, askCalls, askMap,
                   promises, nextMessageId, registered, settings, calls, communicatorMap>>

\* `this.outputChannel = await getChannel(...)` resolves.
ServiceOutputChannelOpened ==
    /\ service.pc = "openingOutput"
    /\ service' = ServiceStartInput([service EXCEPT !.outputChannel =
                                                     Channel(service.outputQueueName, FALSE)])
    /\ UNCHANGED <<communicator, manager, messages, callback, askCalls, askMap,
                   promises, nextMessageId, registered, settings, calls, communicatorMap>>

\* `this.inputChannel = await getChannel(...)` resolves: the consumer is
\* installed and start() returns.
ServiceInputChannelOpened ==
    /\ service.pc = "openingInput"
    /\ service' = [service EXCEPT !.inputChannel = Channel(service.inputQueueName, TRUE),
                                  !.pc = "started"]
    /\ UNCHANGED <<communicator, manager, messages, callback, askCalls, askMap,
                   promises, nextMessageId, registered, settings, calls, communicatorMap>>

\* What Service.send() throws: the disabled direction first, then the
\* dereference of an output channel that is still undefined.
ServiceSendError(sv) ==
    IF ~sv.isOutputEnabled THEN OutputDisabledError
    ELSE IF ~sv.outputChannel.open THEN TypeError
    ELSE Undefined

\* service.send(data), at any time in the life of the Service: it has no await
\* before the publish.
ServiceSendCall(additionalMetadata) ==
    /\ service.pc \notin {"none", "threw"}
    /\ Len(calls) < MaxCalls
    /\ LET e == ServiceSendError(service)
           k == Len(calls) + 1
       IN  IF e # Undefined
           THEN /\ calls' = Append(calls, [Call("service", "send", service.name, "threw", e,
                                                 service.pc # "started")
                                              EXCEPT !.metadata = additionalMetadata])
                /\ UNCHANGED <<messages, callback>>
           ELSE /\ calls' = Append(calls, [Call("service", "send", service.name, "returned", e,
                                                 service.pc # "started")
                                              EXCEPT !.published = 1,
                                                     !.metadata = additionalMetadata])
                /\ messages' = Publish(messages, service.outputChannel.queue,
                                       ServiceSendEnvelope(k, additionalMetadata))
                /\ callback' = Append(callback, IdleCallback)
    /\ UNCHANGED <<service, communicator, manager, askCalls, askMap, promises,
                   nextMessageId, registered, settings, communicatorMap>>

\* -------------------------------------------------------- ControllablePromise
\* A promise is [state, value, timer]: the native promise settles once, later
\* calls of resolve or reject change nothing; timer is the resolveTimeoutId's
\* timer: "unset", "armed", "cleared" or "fired".

NoEnvelope == Envelope(PlainMetadata, 0)

NewPromise == [state |-> "pending", value |-> NoEnvelope, error |-> Undefined,
               timer |-> "unset"]

\* Mutant: resolve settles the promise again after it was rejected.
NativeResolveSettled(p, value) == [p EXCEPT !.state = "resolved", !.value = value]

\* resolve of a native Promise: the first settlement stays.
NativeResolve(p, value) ==
    IF p.state = "pending" THEN [p EXCEPT !.state = "resolved", !.value = value] ELSE p

NativeReject(p, error) ==
    IF p.state = "pending" THEN [p EXCEPT !.state = "rejected", !.error = error] ELSE p

ClearTimeout(p) == IF p.timer = "armed" THEN [p EXCEPT !.timer = "cleared"] ELSE p

\* promise.setResolveTimeout(ms, message)
SetResolveTimeout(p) == [p EXCEPT !.timer = "armed"]

\* Mutant: the timer's callback resolves instead of rejecting.
ResolveTimeoutFiresResolving(p, message) == NativeResolve([p EXCEPT !.timer = "fired"], NoEnvelope)

\* The timer's callback: reject(new Error(message)).
ResolveTimeoutFires(p, message) == NativeReject([p EXCEPT !.timer = "fired"], message)

\* Mutant: resolve() leaves the timer running.
PromiseResolveKeepingTimer(p, value) == NativeResolve(p, value)

\* promise.resolve(value)
PromiseResolve(p, value) == NativeResolve(ClearTimeout(p), value)

\* promise.reject(e)
PromiseReject(p, e) == NativeReject(ClearTimeout(p), e)

\* --------------------------------------------------------------- Communicator

AskMapGet(id) == IF id \in DOMAIN askMap THEN askMap[id] ELSE NoId

\* The catch branch of the Communicator's consume callback.
CommunicatorCatch(ms, m) == Nack(ms, m, FALSE, ~communicator.shouldDiscardMessages)

\* Mutant: the output listener is called without await, the ack follows at once.
CommunicatorConsumeNotAwaiting(m) ==
    /\ communicator.isCommunicatorStarted
    /\ communicator.isOutputEnabled
    /\ communicator.outputChannel.consumer
    /\ CanDeliver(m, communicator.outputQueueName)
    /\ messages[m].envelope.metadata.isReplyTo = NoId
    /\ communicator.outputListener # <<>>
    /\ messages' = Ack(Delivered(messages, m, "outputListener", "running"), m)
    /\ callback' = [callback EXCEPT ![m] = [phase |-> "down", i |-> 1, err |-> FALSE]]
    /\ UNCHANGED <<service, communicator, manager, askCalls, askMap, promises,
                   nextMessageId, registered,
                   settings, calls, communicatorMap>>

\* Mutant: a reply is handed to the output listener like any other message.
CommunicatorConsumeIgnoringIsReplyTo(m) ==
    /\ communicator.isCommunicatorStarted
    /\ communicator.isOutputEnabled
    /\ communicator.outputChannel.consumer
    /\ CanDeliver(m, communicator.outputQueueName)
    /\ communicator.outputListener # <<>>
    /\ messages' = Delivered(messages, m, "outputListener", "running")
    /\ callback' = [callback EXCEPT ![m] = [phase |-> "down", i |-> 1, err |-> FALSE]]
    /\ UNCHANGED <<service, communicator, manager, askCalls, askMap, promises,
                   nextMessageId, registered,
                   settings, calls, communicatorMap>>

\* The consume callback of the output queue, up to its first await.  A reply
\* is settled at once; any other message enters the output listener, whose
\* first function is chain position 1.
CommunicatorConsume(m) ==
    /\ communicator.isCommunicatorStarted
    /\ communicator.isOutputEnabled
    /\ communicator.outputChannel.consumer
    /\ CanDeliver(m, communicator.outputQueueName)
    /\ LET md == messages[m].envelope.metadata IN
        IF md.isReplyTo # NoId
        THEN IF AskMapGet(md.isReplyTo) = NoId
             THEN /\ messages' = CommunicatorCatch(Delivered(messages, m, "none", "error"), m)
                  /\ UNCHANGED <<callback, promises, askMap>>
             ELSE /\ promises' = [promises EXCEPT ![askMap[md.isReplyTo]] =
                                      PromiseResolve(@, messages[m].envelope)]
                  /\ askMap' = [askMap EXCEPT ![md.isReplyTo] = NoId]
                  /\ messages' = Ack(Delivered(messages, m, "reply", "ok"), m)
                  /\ UNCHANGED callback
        ELSE IF communicator.outputListener = <<>>
             THEN /\ messages' = CommunicatorCatch(Delivered(messages, m, "none", "error"), m)
                  /\ UNCHANGED <<callback, promises, askMap>>
             ELSE /\ messages' = Delivered(messages, m, "outputListener", "running")
                  /\ callback' = [callback EXCEPT ![m] =
                                      [phase |-> "down", i |-> 1, err |-> FALSE]]
                  /\ UNCHANGED <<promises, askMap>>
    /\ UNCHANGED <<service, communicator, manager, askCalls, nextMessageId, registered,
                   settings, calls, communicatorMap>>

\* Mutant: when a function settles, control returns to the consume callback.
MiddlewareSettledSkippingCallers(i, threw) == [phase |-> "up", i |-> 0, err |-> threw]

\* The promise of function i settles: control returns to the `await next()` of
\* function i - 1, or for i = 1 to the consume callback.
MiddlewareSettled(i, threw) == [phase |-> "up", i |-> i - 1, err |-> threw]

\* middlewareChain[i](ctx): function i of the output listener runs up to its
\* `await next()`.  The terminal listener returns or throws; an interceptor
\* calls next(), throws before it, or returns without calling it.
MiddlewareCall(m, behaviour) ==
    /\ callback[m].phase = "down"
    /\ LET chain == communicator.outputListener
           i     == callback[m].i
           fn    == chain[i]
       IN  IF i = Len(chain)
           THEN /\ behaviour \in {"ok", "throw"}
                /\ messages' = Traced(messages, m, "listener", fn, behaviour = "throw", {}, {})
                /\ callback' = [callback EXCEPT ![m] = MiddlewareSettled(i, behaviour = "throw")]
           ELSE /\ behaviour \in {"next", "throw", "return"}
                /\ IF behaviour = "next"
                   THEN /\ messages' = Traced(messages, m, "before", fn, FALSE, {i}, {})
                        /\ callback' = [callback EXCEPT ![m].i = i + 1]
                   ELSE /\ messages' = Traced(messages, m, "before", fn, behaviour = "throw", {}, {})
                        /\ callback' = [callback EXCEPT ![m] =
                               MiddlewareSettled(i, behaviour = "throw")]
    /\ UNCHANGED <<service, communicator, manager, askCalls, askMap, promises,
                   nextMessageId, registered,
                   settings, calls, communicatorMap>>

\* The `await next()` of function i settles.  A rejection passes through the
\* interceptor; otherwise its code after next() runs and returns or throws.
MiddlewareResume(m, behaviour) ==
    /\ callback[m].phase = "up"
    /\ callback[m].i >= 1
    /\ behaviour \in {"ok", "throw"}
    /\ LET i  == callback[m].i
           fn == communicator.outputListener[i]
       IN  IF callback[m].err
           THEN /\ behaviour = "throw"
                /\ messages' = [messages EXCEPT ![m].open = @ \ {i}]
                /\ callback' = [callback EXCEPT ![m].i = i - 1]
           ELSE /\ messages' = Traced(messages, m, "after", fn, behaviour = "throw", {}, {i})
                /\ callback' = [callback EXCEPT ![m] = MiddlewareSettled(i, behaviour = "throw")]
    /\ UNCHANGED <<service, communicator, manager, askCalls, askMap, promises,
                   nextMessageId, registered,
                   settings, calls, communicatorMap>>

\* The metadata send() builds: {...this.metadata, ...additionalMetadata, messageId}.
CommunicatorSendMetadata(defaults, additionalMetadata, messageId) ==
    [Spread(defaults, additionalMetadata) EXCEPT !.messageId = messageId]

\* Communicator.send(data, additionalMetadata): the envelope it publishes.
CommunicatorSendEnvelope(data, additionalMetadata, messageId) ==
    Envelope(CommunicatorSendMetadata(communicator.metadata, additionalMetadata, messageId),
             data)

\* Communicator.start(): the listener check of the output branch, which
\* throws or goes on to await the output channel.
CommunicatorStartCheck(c) ==
    IF c.isOutputEnabled /\ c.outputListener = <<>> /\ ~c.useAsk
    THEN [c EXCEPT !.pc = "failed", !.error = CommunicatorNoListenerError]
    ELSE [c EXCEPT !.pc = "starting"]

\* Communicator.start() from `if (this.isOutputEnabled)` to the next await,
\* or to its end when output is disabled.
CommunicatorStartOutput(c) ==
    IF c.isOutputEnabled THEN CommunicatorStartCheck(c)
    ELSE [c EXCEPT !.pc = "started", !.isCommunicatorStarted = TRUE]

\* Mutant: start() opens the input channel whether input is enabled or not.
CommunicatorStartBeginOpeningInput(c) ==
    [c EXCEPT !.rabbitClient = TRUE, !.pc = "openingInput"]

\* Communicator.start() up to its first await.
CommunicatorStartBegin(c) ==
    IF c.isInputEnabled
    THEN [c EXCEPT !.rabbitClient = TRUE, !.pc = "openingInput"]
    ELSE CommunicatorStartOutput([c EXCEPT !.rabbitClient = TRUE])

\* `this.inputChannel = await getChannel(...)` resolves.
CommunicatorInputOpened(c) ==
    CommunicatorStartOutput([c EXCEPT !.inputChannel = Channel(c.inputQueueName, FALSE)])

\* `this.outputChannel = await getChannel(...)` resolves: the consumer of the
\* output queue is installed and the instance is marked started.
CommunicatorOutputOpened(c) ==
    [c EXCEPT !.outputChannel = Channel(c.outputQueueName, TRUE),
              !.pc = "started", !.isCommunicatorStarted = TRUE]

\* The Communicator constructor's checks, in order; Undefined when all pass.
CommunicatorSettingsError(s) ==
    IF ~s.passed THEN NoSettingsError
    ELSE IF s.targetServiceName = Undefined THEN TargetRequiredError
    ELSE IF ~Default(s.isInputEnabled, TRUE) /\ ~Default(s.isOutputEnabled, TRUE)
         THEN BothDisabledError
    ELSE IF ~s.rabbitClient /\ ~s.rabbitOptions THEN NoClientError
    ELSE IF ~Default(s.isInputEnabled, TRUE) /\ Default(s.shouldDiscardMessages, FALSE)
         THEN DiscardError
    ELSE Undefined

\* The object `new Communicator(settings)` leaves, or the error it throws.
\* The queue names are `${namespace}:${targetServiceName}:input` and
\* `...:output`; with one Service they are written "input" and "output".
ConstructCommunicator(s, inputQueueName, outputQueueName) ==
    [pc |-> IF CommunicatorSettingsError(s) = Undefined THEN "constructed" ELSE "threw",
     targetServiceName |-> s.targetServiceName, namespace |-> Namespace(s),
     useAsk |-> Default(s.useAsk, FALSE),
     isInputEnabled |-> Default(s.useAsk, FALSE) \/ Default(s.isInputEnabled, TRUE),
     isOutputEnabled |-> Default(s.useAsk, FALSE) \/ Default(s.isOutputEnabled, TRUE),
     shouldDiscardMessages |-> Default(s.shouldDiscardMessages, FALSE),
     outputListener |-> <<>>, isCommunicatorStarted |-> FALSE,
     metadata |-> s.metadata,
     inputQueueName |-> inputQueueName, outputQueueName |-> outputQueueName,
     rabbitClient |-> s.rabbitClient,
     inputChannel |-> NoChannel, outputChannel |-> NoChannel,
     error |-> CommunicatorSettingsError(s)]

\* new Communicator(settings)
CommunicatorConstruct ==
    /\ communicator.pc = "none"
    /\ communicator' = ConstructCommunicator(settings, "input", "output")
    /\ UNCHANGED <<service, manager, messages, callback, askCalls, askMap,
                   promises, nextMessageId, registered, settings, calls, communicatorMap>>

\* communicator.addOutputListener(fn), before start(); it throws when output
\* is disabled.
AddOutputListener ==
    /\ communicator.pc = "constructed"
    /\ communicator.isOutputEnabled
    /\ communicator.outputListener = <<>>
    /\ communicator' = [communicator EXCEPT !.outputListener = <<Listener>>]
    /\ UNCHANGED <<service, manager, messages, callback, askCalls, askMap,
                   promises, nextMessageId, registered, settings, calls, communicatorMap>>

\* communicator.start() up to its first await.
CommunicatorStart ==
    /\ communicator.pc = "constructed"
    /\ communicator' = CommunicatorStartBegin(communicator)
    /\ UNCHANGED <<service, manager, messages, callback, askCalls, askMap,
                   promises, nextMessageId, registered, settings, calls, communicatorMap>>

\* Mutant: send() on a Peer with input disabled goes on to wait for start.
CommunicatorSendErrorUnchecked(c) == Undefined

\* What Communicator.send() throws before it waits for start.
CommunicatorSendError(c) == IF ~c.isInputEnabled THEN InputDisabledError ELSE Undefined

\* Mutant: verifyStart resolves at once.
VerifyStartResolvedAlways(c) == TRUE

\* verifyStart(): resolved at once when the instance is started, otherwise by
\* the 50 ms interval that polls isCommunicatorStarted.
VerifyStartResolved(c) == c.isCommunicatorStarted

\* communicator.send(data) up to `await this.verifyStart()`.
CommunicatorSendCall(additionalMetadata) ==
    /\ communicator.pc \notin {"none", "threw"}
    /\ Len(calls) < MaxCalls
    /\ LET e == CommunicatorSendError(communicator) IN
        calls' = Append(calls, [Call("communicator", "send", communicator.targetServiceName,
                                     IF e # Undefined THEN "threw" ELSE "verifyStart", e,
                                     ~communicator.isCommunicatorStarted)
                                  EXCEPT !.metadata = additionalMetadata])
    /\ UNCHANGED <<service, communicator, manager, messages, callback, askCalls, askMap,
                   promises, nextMessageId, registered, settings, communicatorMap>>

\* communicator.send(data) after verifyStart: nanoid gives the messageId, the
\* envelope is published into the input queue, the messageId is returned.
CommunicatorSendProceed(k) ==
    /\ calls[k].who = "communicator"
    /\ calls[k].pc = "verifyStart"
    /\ VerifyStartResolved(communicator)
    /\ nextMessageId' = nextMessageId + 1
    /\ messages' = Publish(messages, communicator.inputChannel.queue,
                           CommunicatorSendEnvelope(k, calls[k].metadata, nextMessageId + 1))
    /\ callback' = Append(callback, IdleCallback)
    /\ calls' = [calls EXCEPT ![k].pc = "returned", ![k].published = @ + 1]
    /\ UNCHANGED <<service, communicator, manager, askCalls, askMap, promises,
                   registered, settings, communicatorMap>>

\* communicator.ask(subject, data) up to the `await this.verifyStart()` of the
\* send() it begins with.
AskCall(c) ==
    /\ communicator.pc \notin {"none", "threw"}
    /\ askCalls[c].pc = "idle"
    /\ \A b \in AskIds : b < c => askCalls[b].pc # "idle"
    /\ askCalls' = [askCalls EXCEPT ![c].pc =
           IF CommunicatorSendError(communicator) # Undefined THEN "threw" ELSE "verifyStart"]
    /\ UNCHANGED <<service, communicator, manager, messages, callback, askMap, promises,
                   nextMessageId, registered, settings, calls, communicatorMap>>

\* Mutant: the caller's metadata is spread last and wins over ask and subject.
AskMetadataCallerWins(additionalMetadata, subject) ==
    Spread(Metadata(TRUE, subject, NoId, NoId), additionalMetadata)

\* The second argument ask() gives to send(): {...additionalMetadata, ask: true, subject}
AskMetadata(additionalMetadata, subject) ==
    [additionalMetadata EXCEPT !.ask = TRUE, !.subject = subject]

\* Communicator.ask(subject, data, additionalMetadata) up to the end of `await this.send(...)`:
\* verifyStart has resolved, nanoid gives the messageId, the request is
\* published into the input queue.  Calls are numbered in call order.
AskSendWith(c, subject, additionalMetadata) ==
    /\ askCalls[c].pc \in {"idle", "verifyStart"}
    /\ \A b \in AskIds : b < c => askCalls[b].pc # "idle"
    /\ communicator.isInputEnabled
    /\ VerifyStartResolved(communicator)
    /\ LET messageId == nextMessageId + 1 IN
        /\ nextMessageId' = messageId
        /\ messages' = Publish(messages, communicator.inputQueueName,
               CommunicatorSendEnvelope(c, AskMetadata(additionalMetadata, subject), messageId))
        /\ askCalls' = [askCalls EXCEPT ![c] =
               [pc |-> "sent", messageId |-> messageId, subject |-> subject]]
    /\ callback' = Append(callback, IdleCallback)
    /\ UNCHANGED <<service, communicator, manager, askMap, promises, registered,
                   settings, calls, communicatorMap>>

\* ask(subject, data): additionalMetadata = {}.
AskSend(c, subject) == AskSendWith(c, subject, PlainMetadata)

\* ask() after the await: the timeout is set and the promise is stored in
\* askMap under the messageId; the promise is returned to the caller.
AskRegister(c) ==
    /\ askCalls[c].pc = "sent"
    /\ promises' = [promises EXCEPT ![c] = SetResolveTimeout(@)]
    /\ askMap' = [askMap EXCEPT ![askCalls[c].messageId] = c]
    /\ askCalls' = [askCalls EXCEPT ![c].pc = "returned"]
    /\ UNCHANGED <<service, communicator, manager, messages, callback,
                   nextMessageId, registered,
                   settings, calls, communicatorMap>>

\* The askTimeout timer of call c's promise fires.
AskTimeout(c) ==
    /\ promises[c].timer = "armed"
    /\ promises' = [promises EXCEPT ![c] = ResolveTimeoutFires(@, TimeoutError)]
    /\ UNCHANGED <<service, communicator, manager, messages, callback, askCalls,
                   askMap, nextMessageId, registered,
                   settings, calls, communicatorMap>>

\* After `await this.outputListener(ctx)`.
CommunicatorAfterOutputListener(ms, m) == Ack(ms, m)

\* `await this.outputListener(ctx)` settles: ack, or the catch branch.
CommunicatorListenerDone(m) ==
    /\ callback[m].phase = "up"
    /\ callback[m].i = 0
    /\ messages' = IF callback[m].err
                   THEN CommunicatorCatch(Outcome(messages, m, "throw"), m)
                   ELSE CommunicatorAfterOutputListener(Outcome(messages, m, "ok"), m)
    /\ callback' = [callback EXCEPT ![m] = IdleCallback]
    /\ UNCHANGED <<service, communicator, manager, askCalls, askMap, promises,
                   nextMessageId, registered,
                   settings, calls, communicatorMap>>

\* ------------------------------------------------------ CommunicationsManager

\* The ids of the next n interceptors passed to applyMiddleware: interceptors
\* are numbered in the order they are registered.
NewMiddleware(n) == [k \in 1..n |-> Len(registered) + k]

\* this.rootMiddlewareList.push(...newRootMiddlewareList)
PushRoot(rootMiddlewareList, list) == rootMiddlewareList \o list

\* Mutant: the interceptors go to the chain of every name.
PushSpecificEveryName(specificMiddlewareMap, targetServiceNameList, list) ==
    [name \in Names |-> specificMiddlewareMap[name] \o list]

\* targetServiceNameList.forEach: this.specificMiddlewareMap[name].push(...list)
PushSpecific(specificMiddlewareMap, targetServiceNameList, list) ==
    [name \in Names |->
        IF \E k \in 1..Len(targetServiceNameList) : targetServiceNameList[k] = name
        THEN specificMiddlewareMap[name] \o list
        ELSE specificMiddlewareMap[name]]

\* applyMiddleware(...args): with a second argument the interceptors go to the
\* chains of the names given first, otherwise to the root chain.  A single
\* name or interceptor is a list of one.
ApplyMiddleware(scoped, targetServiceNameList, n) ==
    /\ manager.pc = "constructed"
    /\ n >= 1
    /\ NewMiddleware(n)[n] <= MaxMiddleware
    /\ scoped = (targetServiceNameList # <<>>)
    /\ LET list == NewMiddleware(n) IN
        /\ manager' = IF scoped
                      THEN [manager EXCEPT !.specificMiddlewareMap =
                               PushSpecific(@, targetServiceNameList, list)]
                      ELSE [manager EXCEPT !.rootMiddlewareList = PushRoot(@, list)]
        /\ registered' = registered \o [k \in 1..n |-> targetServiceNameList]
    /\ UNCHANGED <<service, communicator, messages, callback, askCalls, askMap,
                   promises, nextMessageId,
                   settings, calls, communicatorMap>>

\* Mutant: the peer's own interceptors are put before the root ones.
MiddlewareListSpecificFirst(rootMiddlewareList, specificMiddlewareList, outputListener) ==
    specificMiddlewareList \o rootMiddlewareList \o outputListener

\* middlewareList of start(): root interceptors, then the peer's own, then the
\* output listener.  middlewareChain[i] calls function i with a next() that
\* calls middlewareChain[i + 1]; the composed listener calls middlewareChain[0].
MiddlewareList(rootMiddlewareList, specificMiddlewareList, outputListener) ==
    rootMiddlewareList \o specificMiddlewareList \o outputListener

\* CommunicationsManager.start() up to its await: the peer with an output
\* listener gets the composed chain as its listener, and its start() is called.
ManagerStart ==
    /\ manager.pc = "constructed"
    /\ communicator.pc = "constructed"
    /\ manager' = [manager EXCEPT !.pc = "starting"]
    /\ communicator' = CommunicatorStartBegin(
           IF communicator.outputListener # <<>>
           THEN [communicator EXCEPT !.outputListener =
                    MiddlewareList(manager.rootMiddlewareList,
                                   manager.specificMiddlewareMap[communicator.targetServiceName],
                                   @)]
           ELSE communicator)
    /\ UNCHANGED <<service, messages, callback, askCalls, askMap, promises,
                   nextMessageId, registered,
                   settings, calls, communicatorMap>>

\* Communicator.start(): the await of the input channel resolves.
CommunicatorInputChannelOpened ==
    /\ communicator.pc = "openingInput"
    /\ communicator' = CommunicatorInputOpened(communicator)
    /\ UNCHANGED <<service, manager, messages, callback, askCalls, askMap, promises,
                   nextMessageId, registered,
                   settings, calls, communicatorMap>>

\* Communicator.start(): the await of the output channel resolves.
CommunicatorStarted ==
    /\ communicator.pc = "starting"
    /\ communicator' = CommunicatorOutputOpened(communicator)
    /\ UNCHANGED <<service, manager, messages, callback, askCalls, askMap, promises,
                   nextMessageId, registered,
                   settings, calls, communicatorMap>>

\* CommunicationsManager.start() after `await Promise.all(...)`.
ManagerStarted ==
    /\ manager.pc = "starting"
    /\ communicator.pc = "started"
    /\ manager' = [manager EXCEPT !.pc = "started", !.isManagerStarted = TRUE]
    /\ UNCHANGED <<service, communicator, messages, callback, askCalls, askMap,
                   promises, nextMessageId, registered,
                   settings, calls, communicatorMap>>

\* A settings object with every key undefined.
NoSettings ==
    [passed |-> FALSE, name |-> Undefined, targetServiceName |-> Undefined,
     rabbitClient |-> FALSE, rabbitOptions |-> FALSE, useAsk |-> Undefined,
     isInputEnabled |-> Undefined, isOutputEnabled |-> Undefined,
     shouldDiscardMessages |-> Undefined, metadata |-> PlainMetadata,
     namespace |-> Undefined]

\* The queues of the Owner called name: `${namespace}:${name}:input` and
\* `${namespace}:${name}:output`, the namespace left out.
InputQueueName(name) == name \o ":input"
OutputQueueName(name) == name \o ":output"

\* Mutant: no name counts as registered.
IsCommunicatorRegisteredNever(map, name) == FALSE

\* isCommunicatorRegistered(targetServiceName)
IsCommunicatorRegistered(map, name) == map[name].pc # "none"

RegisteredNames == {name \in Names : IsCommunicatorRegistered(communicatorMap, name)}

\* The settings registerCommunicator hands to the Communicator constructor:
\* the options given, the manager's rabbitClient, the name.
PoolSettings(name, useAsk) ==
    [NoSettings EXCEPT !.passed = TRUE, !.targetServiceName = name,
                       !.rabbitClient = TRUE, !.useAsk = useAsk]

\* registerCommunicator(targetServiceName, communicatorOptions, outputListener),
\* before start(): a name already registered is refused; otherwise the
\* Communicator is constructed and stored, and its output listener added when
\* one is given.
RegisterCommunicator(name, useAsk, outputListener) ==
    /\ manager.pc = "constructed"
    /\ IF IsCommunicatorRegistered(communicatorMap, name)
       THEN /\ Len(calls) < MaxCalls
            /\ calls' = Append(calls, Call("manager", "registerCommunicator", name, "threw",
                                           AlreadyRegisteredError, TRUE))
            /\ UNCHANGED communicatorMap
       ELSE /\ communicatorMap' = [communicatorMap EXCEPT ![name] =
                   [ConstructCommunicator(PoolSettings(name, useAsk),
                                          InputQueueName(name), OutputQueueName(name))
                       EXCEPT !.outputListener = outputListener]]
            /\ UNCHANGED calls
    /\ UNCHANGED <<service, communicator, manager, messages, callback, askCalls, askMap,
                   promises, nextMessageId, registered, settings>>

\* registerCommunicator from `this.communicatorMap[name] = new Communicator`
\* on, for a constructor that returned c: c is stored, then the listener, if
\* one is given, is added, which throws for a Peer with output disabled.
StoredBeforeListener(map, name, c, outputListener) ==
    IF outputListener # <<>> /\ ~c.isOutputEnabled THEN [map EXCEPT ![name] = c]
    ELSE [map EXCEPT ![name] = [c EXCEPT !.outputListener = outputListener]]

\* What registerCommunicator throws: for a registered name, from the
\* constructor, or from addOutputListener; Undefined when it returns.
RegisterCommunicatorError(map, name, s, outputListener) ==
    IF IsCommunicatorRegistered(map, name) THEN AlreadyRegisteredError
    ELSE IF CommunicatorSettingsError(s) # Undefined THEN CommunicatorSettingsError(s)
    ELSE IF outputListener # <<>> /\ ~ConstructCommunicator(s, "", "").isOutputEnabled
         THEN ListenerOnDisabledOutputError
    ELSE Undefined

\* registerCommunicator(targetServiceName, communicatorOptions, outputListener)
\* with any options: the options are spread under the manager's rabbitClient
\* and the name, the constructor may throw, and so may addOutputListener.
RegisterCommunicatorWith(name, communicatorOptions, outputListener) ==
    /\ manager.pc = "constructed"
    /\ Len(calls) < MaxCalls
    /\ LET s == [communicatorOptions EXCEPT !.passed = TRUE, !.rabbitClient = TRUE,
                                            !.targetServiceName = name]
           error == RegisterCommunicatorError(communicatorMap, name, s, outputListener)
           c == ConstructCommunicator(s, InputQueueName(name), OutputQueueName(name))
       IN  /\ calls' = Append(calls,
                  Call("manager", "registerCommunicator", name,
                       IF error = Undefined THEN "returned" ELSE "threw", error, TRUE))
           /\ communicatorMap' =
                  IF IsCommunicatorRegistered(communicatorMap, name) \/ c.pc = "threw"
                  THEN communicatorMap
                  ELSE StoredBeforeListener(communicatorMap, name, c, outputListener)
    /\ UNCHANGED <<service, communicator, manager, messages, callback, askCalls, askMap,
                   promises, nextMessageId, registered, settings>>

\* CommunicationsManager.start() up to its await: every registered peer with
\* an output listener gets its composed chain, and start() of every peer runs
\* up to its first await.
ManagerStartAll ==
    /\ manager.pc = "constructed"
    /\ manager' = [manager EXCEPT !.pc = "starting"]
    /\ communicatorMap' = [name \in Names |->
           LET c == communicatorMap[name] IN
           IF ~IsCommunicatorRegistered(communicatorMap, name) THEN c
           ELSE CommunicatorStartBegin(
                    IF c.outputListener # <<>>
                    THEN [c EXCEPT !.outputListener =
                             MiddlewareList(manager.rootMiddlewareList,
                                            manager.specificMiddlewareMap[name], @)]
                    ELSE c)]
    /\ UNCHANGED <<service, communicator, messages, callback, askCalls, askMap,
                   promises, nextMessageId, registered, settings, calls>>

\* start() of the peer called name: the await of its input channel resolves.
PoolInputChannelOpened(name) ==
    /\ communicatorMap[name].pc = "openingInput"
    /\ communicatorMap' = [communicatorMap EXCEPT ![name] = CommunicatorInputOpened(@)]
    /\ UNCHANGED <<service, communicator, manager, messages, callback, askCalls, askMap,
                   promises, nextMessageId, registered, settings, calls>>

\* start() of the peer called name: the await of its output channel resolves.
PoolOutputChannelOpened(name) ==
    /\ communicatorMap[name].pc = "starting"
    /\ communicatorMap' = [communicatorMap EXCEPT ![name] = CommunicatorOutputOpened(@)]
    /\ UNCHANGED <<service, communicator, manager, messages, callback, askCalls, askMap,
                   promises, nextMessageId, registered, settings, calls>>

\* Mutant: the manager is marked started as soon as start() was called.
AllStartedUnawaited(map) == TRUE

\* `await Promise.all(...)` of start() resolves when start() of every
\* registered peer has returned.
AllStarted(map) ==
    \A name \in Names : IsCommunicatorRegistered(map, name) => map[name].pc = "started"

\* CommunicationsManager.start() after `await Promise.all(...)`.
ManagerStartedAll ==
    /\ manager.pc = "starting"
    /\ AllStarted(communicatorMap)
    /\ manager' = [manager EXCEPT !.pc = "started", !.isManagerStarted = TRUE]
    /\ UNCHANGED <<service, communicator, messages, callback, askCalls, askMap,
                   promises, nextMessageId, registered, settings, calls, communicatorMap>>

\* `await Promise.all(...)` of start() rejects: start() of a peer threw.
ManagerStartFailed ==
    /\ manager.pc = "starting"
    /\ \E name \in Names : communicatorMap[name].pc = "failed"
    /\ manager' = [manager EXCEPT !.pc = "failed"]
    /\ UNCHANGED <<service, communicator, messages, callback, askCalls, askMap,
                   promises, nextMessageId, registered, settings, calls, communicatorMap>>

\* manager.send(name, data) and manager.broadcast(data) up to
\* `await this.verifyStart()`.
ManagerCall(op, name) ==
    /\ Len(calls) < MaxCalls
    /\ op \in {"send", "broadcast"}
    /\ (op = "broadcast") = (name = Undefined)
    /\ calls' = Append(calls, Call("manager", op, name, "verifyStart", Undefined,
                                   ~manager.isManagerStarted))
    /\ UNCHANGED <<service, communicator, manager, messages, callback, askCalls, askMap,
                   promises, nextMessageId, registered, settings, communicatorMap>>

\* Mutant: broadcast() sends through the peer called p only.
BroadcastTargetsFirstOnly(map) ==
    {name \in Names : IsCommunicatorRegistered(map, name) /\ name = "p"}

\* Object.values(this.communicatorMap): the peers broadcast() sends through.
BroadcastTargets(map) == {name \in Names : IsCommunicatorRegistered(map, name)}

\* Mutant: send() routes to every registered peer.
SendTargetsAll(map, name) == {other \in Names : IsCommunicatorRegistered(map, other)}

\* this.communicatorMap[targetServiceName]: the peer send() sends through.
SendTargets(map, name) == {name}

\* send() / broadcast() after verifyStart: send() throws for a name that is
\* not registered; otherwise send() of each target peer runs up to its own
\* `await this.verifyStart()`, or throws when the peer's input is disabled.
ManagerProceed(k) ==
    /\ calls[k].who = "manager"
    /\ calls[k].pc = "verifyStart"
    /\ manager.isManagerStarted
    /\ IF calls[k].op = "send" /\ ~IsCommunicatorRegistered(communicatorMap, calls[k].target)
       THEN calls' = [calls EXCEPT ![k].pc = "threw", ![k].error = NotRegisteredError]
       ELSE LET targets == IF calls[k].op = "send"
                           THEN SendTargets(communicatorMap, calls[k].target)
                           ELSE BroadcastTargets(communicatorMap)
                refused == {name \in targets :
                               CommunicatorSendError(communicatorMap[name]) # Undefined}
            IN  calls' = [calls EXCEPT
                    ![k].pending = targets \ refused,
                    ![k].error = IF refused # {} THEN InputDisabledError ELSE Undefined,
                    ![k].pc = IF targets \ refused # {} THEN "sending"
                              ELSE IF refused # {} THEN "threw" ELSE "returned"]
    /\ UNCHANGED <<service, communicator, manager, messages, callback, askCalls, askMap,
                   promises, nextMessageId, registered, settings, communicatorMap>>

\* send() of the peer called name, begun by call k, after its verifyStart: the
\* envelope is published into the input queue of the Owner called name.  The
\* manager's call returns when every send() it awaits has returned.
PoolSendProceed(k, name) ==
    /\ calls[k].who = "manager"
    /\ calls[k].pc = "sending"
    /\ name \in calls[k].pending
    /\ VerifyStartResolved(communicatorMap[name])
    /\ nextMessageId' = nextMessageId + 1
    /\ messages' = Publish(messages, communicatorMap[name].inputChannel.queue,
                           Envelope(CommunicatorSendMetadata(communicatorMap[name].metadata,
                                        PlainMetadata, nextMessageId + 1), k))
    /\ callback' = Append(callback, IdleCallback)
    /\ calls' = [calls EXCEPT
           ![k].pending = @ \ {name},
           ![k].published = @ + 1,
           ![k].pc = IF calls[k].pending # {name} THEN "sending"
                     ELSE IF calls[k].error # Undefined THEN "threw" ELSE "returned"]
    /\ UNCHANGED <<service, communicator, manager, askCalls, askMap, promises,
                   registered, settings, communicatorMap>>

\* The Owner called name, started with an input listener that succeeds: the
\* consume callback of its input queue, run to its acknowledgement.
OwnerConsume(m, name) ==
    /\ CanDeliver(m, InputQueueName(name))
    /\ messages' = ServiceAfterInputListener(
                       Outcome(Delivered(messages, m, "inputListener", "running"), m, "ok"), m)
    /\ UNCHANGED <<service, communicator, manager, callback, askCalls, askMap, promises,
                   nextMessageId, registered, settings, calls, communicatorMap>>

\* The consume callback of the output queue run by a second Communicator
\* object, the one the pool holds under name.  It has called ask() never, so
\* its own askMap is empty: for a reply the lookup gives undefined, `.resolve`
\* throws and the catch branch nacks; any other message goes to its output
\* listener, which succeeds, and is acknowledged.
OtherCommunicatorConsume(m, name) ==
    LET c == communicatorMap[name] IN
    /\ c.isCommunicatorStarted
    /\ c.isOutputEnabled
    /\ c.outputChannel.consumer
    /\ CanDeliver(m, c.outputQueueName)
    /\ messages' =
          IF messages[m].envelope.metadata.isReplyTo # NoId \/ c.outputListener = <<>>
          THEN Nack(Delivered(messages, m, "none", "error"), m, FALSE,
                    ~c.shouldDiscardMessages)
          ELSE Ack(Outcome(Delivered(messages, m, "outputListener", "running"), m, "ok"), m)
    /\ UNCHANGED <<service, communicator, manager, callback, askCalls, askMap, promises,
                   nextMessageId, registered, settings, calls, communicatorMap>>

\* ------------------------------------------------------------ initial states

\* A Service after start(): both queues bound, the consumer installed.
StartedService(inputListener, askListenersMap, shouldDiscardMessages) ==
    [pc |-> "started", name |-> "p", namespace |-> DefaultNamespace,
     inputQueueName |-> "input", outputQueueName |-> "output",
     isInputEnabled |-> TRUE, isOutputEnabled |-> TRUE,
     shouldDiscardMessages |-> shouldDiscardMessages,
     inputListener |-> inputListener, askListenersMap |-> askListenersMap,
     metadata |-> PlainMetadata,
     rabbitClient |-> TRUE, inputChannel |-> Channel("input", TRUE),
     outputChannel |-> Channel("output", FALSE), error |-> Undefined]

\* A Communicator for the Service, as its constructor leaves it.
NewCommunicator(useAsk, shouldDiscardMessages, outputListener) ==
    [pc |-> "constructed", targetServiceName |-> "p", namespace |-> DefaultNamespace,
     useAsk |-> useAsk,
     isInputEnabled |-> TRUE, isOutputEnabled |-> TRUE,
     shouldDiscardMessages |-> shouldDiscardMessages,
     outputListener |-> outputListener, isCommunicatorStarted |-> FALSE,
     metadata |-> PlainMetadata,
     inputQueueName |-> "input", outputQueueName |-> "output",
     rabbitClient |-> TRUE, inputChannel |-> NoChannel, outputChannel |-> NoChannel,
     error |-> Undefined]

\* A Communicator after its start(): what NewCommunicator gives, started.
StartedCommunicator(useAsk, shouldDiscardMessages, outputListener) ==
    [NewCommunicator(useAsk, shouldDiscardMessages, outputListener)
        EXCEPT !.pc = "started", !.isCommunicatorStarted = TRUE,
               !.inputChannel = Channel("input", FALSE),
               !.outputChannel = Channel("output", TRUE)]

\* A CommunicationsManager as its constructor leaves it.
NewManager ==
    [pc |-> "constructed", rootMiddlewareList |-> <<>>,
     specificMiddlewareMap |-> [name \in Names |-> <<>>], isManagerStarted |-> FALSE]

\* No Communicator object under this name.
NoCommunicator ==
    [NewCommunicator(FALSE, FALSE, <<>>) EXCEPT !.pc = "none", !.targetServiceName = Undefined]

\* No Service object.
NoService ==
    [StartedService(FALSE, {}, FALSE) EXCEPT !.pc = "none", !.name = Undefined,
        !.rabbitClient = FALSE, !.inputChannel = NoChannel, !.outputChannel = NoChannel]

\* The application has called nothing, the manager holds no communicator.
InitApplication ==
    /\ settings = NoSettings
    /\ calls = <<>>
    /\ communicatorMap = [name \in Names |-> NoCommunicator]

\* No message published yet, no ask() called yet.
InitBroker ==
    /\ messages = <<>>
    /\ callback = <<>>
    /\ askCalls = [c \in AskIds |-> [pc |-> "idle", messageId |-> NoId, subject |-> Undefined]]
    /\ askMap = [id \in MessageIds |-> NoId]
    /\ promises = [c \in AskIds |-> NewPromise]
    /\ nextMessageId = 0

\* Pool: a started Service; a manager with the peer "p" registered together
\* with its output listener; nothing applied or started yet.  The peer
\* discards failed messages, so each message runs its chain once.
InitPool ==
    /\ InitBroker
    /\ InitApplication
    /\ registered = <<>>
    /\ service = StartedService(TRUE, {}, FALSE)
    /\ communicator = NewCommunicator(FALSE, TRUE, <<Listener>>)
    /\ manager = NewManager

\* One or two names to scope to, and no scope.
Scopes == {<<>>, <<"p">>, <<"q">>, <<"p", "q">>}

NextPool ==
    \/ \E names \in Scopes, n \in 1..2 : ApplyMiddleware(names # <<>>, names, n)
    \/ ManagerStart
    \/ CommunicatorInputChannelOpened
    \/ CommunicatorStarted
    \/ ManagerStarted
    \/ ServiceSend
    \/ \E m \in Msgs : CommunicatorConsume(m)
    \/ \E m \in Msgs, b \in {"ok", "throw", "next", "return"} : MiddlewareCall(m, b)
    \/ \E m \in Msgs, b \in {"ok", "throw"} : MiddlewareResume(m, b)
    \/ \E m \in Msgs : CommunicatorListenerDone(m)

SpecPool == InitPool /\ [][NextPool]_vars

\* Consume: a started Service with an input listener and an ask listener for
\* subject "s"; the peer started by its manager after applyMiddleware(f) and
\* registerCommunicator("p", options, listener).  Either endpoint requeues or
\* discards.
InitConsume ==
    /\ InitBroker
    /\ InitApplication
    /\ registered = << <<>> >>
    /\ \E d \in BOOLEAN : service = StartedService(TRUE, {"s"}, d)
    /\ \E d \in BOOLEAN : communicator =
           StartedCommunicator(FALSE, d, MiddlewareList(<<1>>, <<>>, <<Listener>>))
    /\ manager = [NewManager EXCEPT !.pc = "started", !.isManagerStarted = TRUE,
                                    !.rootMiddlewareList = <<1>>]

\* What the test channel publishes: a plain message, an ask for a subject
\* with a listener, an ask for a subject without one.
TestMetadata ==
    {PlainMetadata, Metadata(TRUE, "s", NoId, NoId), Metadata(TRUE, "t", NoId, NoId)}

NextConsume ==
    \/ \E md \in TestMetadata : TestPublish(md)
    \/ ServiceSend
    \/ \E m \in Msgs : ServiceConsume(m)
    \/ \E m \in Msgs, o \in {"ok", "throw"} : ServiceListenerDone(m, o)
    \/ \E m \in Msgs : CommunicatorConsume(m)
    \/ \E m \in Msgs, b \in {"ok", "throw", "next", "return"} : MiddlewareCall(m, b)
    \/ \E m \in Msgs, b \in {"ok", "throw"} : MiddlewareResume(m, b)
    \/ \E m \in Msgs : CommunicatorListenerDone(m)

SpecConsume == InitConsume /\ [][NextConsume]_vars


\* Ask: a started Service whose only listener is the ask listener of subject
\* "s"; a standalone Communicator with useAsk, started without an output
\* listener, which requeues or discards.  The ask listener replies or not and
\* returns, as in the README's example.
InitAsk ==
    /\ InitBroker
    /\ InitApplication
    /\ registered = <<>>
    /\ service = StartedService(FALSE, {"s"}, FALSE)
    /\ \E d \in BOOLEAN : communicator = StartedCommunicator(TRUE, d, <<>>)
    /\ manager = NewManager

NextAsk ==
    \/ \E c \in AskIds : AskSend(c, "s")
    \/ \E c \in AskIds : AskRegister(c)
    \/ \E c \in AskIds : AskTimeout(c)
    \/ \E m \in Msgs : ServiceConsume(m)
    \/ \E m \in Msgs : ServiceListenerReply(m, PlainMetadata)
    \/ \E m \in Msgs : ServiceListenerDone(m, "ok")
    \/ \E m \in Msgs : CommunicatorConsume(m)

SpecAsk == InitAsk /\ [][NextAsk]_vars

\* Construct: a settings object with each key given or left out, handed to
\* both constructors; no object exists yet.
Flags == {Undefined, "true", "false"}

SettingsObjects ==
    [passed : {TRUE}, name : {Undefined, "p"}, targetServiceName : {Undefined, "p"},
     rabbitClient : BOOLEAN, rabbitOptions : BOOLEAN, useAsk : Flags,
     isInputEnabled : Flags, isOutputEnabled : Flags, shouldDiscardMessages : Flags,
     metadata : {PlainMetadata}, namespace : {Undefined}]

InitConstruct ==
    /\ InitBroker
    /\ registered = <<>>
    /\ settings \in SettingsObjects \cup {NoSettings}
    /\ calls = <<>>
    /\ communicatorMap = [name \in Names |-> NoCommunicator]
    /\ service = NoService
    /\ communicator = NoCommunicator
    /\ manager = NewManager

NextConstruct ==
    \/ ServiceConstruct
    \/ CommunicatorConstruct

SpecConstruct == InitConstruct /\ [][NextConstruct]_vars

\* Lifecycle: a Service and a Communicator for it, each constructed from
\* settings its constructor accepts, with a rabbitClient given; no listener
\* added, nothing started.  The application sets up the Owner, then the Peer,
\* and calls send() and ask() at any time, MaxCalls times in all.
AcceptedSettings ==
    {s \in SettingsObjects :
        /\ s.name = "p" /\ s.targetServiceName = "p"
        /\ s.rabbitClient /\ ~s.rabbitOptions
        /\ s.isInputEnabled # Undefined /\ s.isOutputEnabled # Undefined
        /\ s.shouldDiscardMessages = "false" /\ s.useAsk # Undefined}

\* The Owner's start() has returned or thrown.
OwnerSetUp == service.pc \in {"started", "failed"}

\* The send() and ask() calls the application has made.
CallsMade == Len(calls) + Cardinality({c \in AskIds : askCalls[c].pc # "idle"})

InitLifecycle ==
    /\ InitBroker
    /\ InitApplication
    /\ registered = <<>>
    /\ \E s \in AcceptedSettings :
          /\ s.useAsk = "false"
          /\ ServiceSettingsError(s) = Undefined
          /\ service = ConstructService(s, "input", "output")
    /\ \E s \in AcceptedSettings :
          /\ CommunicatorSettingsError(s) = Undefined
          /\ communicator = ConstructCommunicator(s, "input", "output")
    /\ manager = NewManager

NextLifecycle ==
    \/ AddInputListener
    \/ AddAskListener("s")
    \/ ServiceStart
    \/ ServiceOutputChannelOpened
    \/ ServiceInputChannelOpened
    \/ (CallsMade < MaxCalls /\ ServiceSendCall(PlainMetadata))
    \/ (OwnerSetUp /\ AddOutputListener)
    \/ (OwnerSetUp /\ CommunicatorStart)
    \/ CommunicatorInputChannelOpened
    \/ CommunicatorStarted
    \/ (CallsMade < MaxCalls /\ CommunicatorSendCall(PlainMetadata))
    \/ \E k \in 1..Len(calls) : CommunicatorSendProceed(k)
    \/ \E c \in AskIds : CallsMade < MaxCalls /\ AskCall(c)
    \/ \E c \in AskIds : AskSend(c, "s")
    \/ \E c \in AskIds : AskRegister(c)

\* The endpoints run when they can: a resolved await is resumed, a delivery
\* or a timer is left to the environment.
SpecLifecycle ==
    /\ InitLifecycle
    /\ [][NextLifecycle]_vars
    /\ WF_vars(\E k \in 1..Len(calls) : CommunicatorSendProceed(k))
    /\ WF_vars(\E c \in AskIds : askCalls[c].pc = "verifyStart" /\ AskSend(c, "s"))

\* Manager: a CommunicationsManager just constructed.  The application
\* registers peers under the names, with or without an output listener, starts the manager, and calls send() and broadcast() at any time;
\* the Owner of every name runs with an input listener that succeeds.
InitManager ==
    /\ InitBroker
    /\ InitApplication
    /\ registered = <<>>
    /\ service = NoService
    /\ communicator = NoCommunicator
    /\ manager = NewManager

NextManager ==
    \/ \E name \in Names, l \in {<<>>, <<Listener>>} :
          RegisterCommunicator(name, Undefined, l)
    \/ ManagerStartAll
    \/ \E name \in Names : PoolInputChannelOpened(name)
    \/ \E name \in Names : PoolOutputChannelOpened(name)
    \/ ManagerStartedAll
    \/ ManagerStartFailed
    \/ \E name \in Names : ManagerCall("send", name)
    \/ ManagerCall("broadcast", Undefined)
    \/ \E k \in 1..Len(calls) : ManagerProceed(k)
    \/ \E k \in 1..Len(calls), name \in Names : PoolSendProceed(k, name)
    \/ \E m \in Msgs, name \in Names : OwnerConsume(m, name)

SpecManager ==
    /\ InitManager
    /\ [][NextManager]_vars
    /\ WF_vars(\E k \in 1..Len(calls) : ManagerProceed(k))
    /\ WF_vars(\E k \in 1..Len(calls), name \in Names : PoolSendProceed(k, name))

\* Registration: a CommunicationsManager just constructed.  The application
\* registers peers under the names, with or without useAsk and an output
\* listener, applies middleware, and starts the manager.
NextRegistration ==
    \/ \E name \in Names, useAsk \in {Undefined, "true"}, l \in {<<>>, <<Listener>>} :
          RegisterCommunicator(name, useAsk, l)
    \/ \E names \in Scopes, n \in 1..2 : ApplyMiddleware(names # <<>>, names, n)
    \/ ManagerStartAll

SpecRegistration == InitManager /\ [][NextRegistration]_vars

\* Reply: a started Service with a general input listener and an ask listener
\* for "s", with or without default metadata.  A test channel publishes plain
\* messages and asks, with and without messageId; the listeners answer with
\* ctx.reply(ctx.data, extra) and return.
InitReply ==
    /\ InitBroker
    /\ InitApplication
    /\ registered = <<>>
    /\ \E md \in {PlainMetadata, [PlainMetadata EXCEPT !.str = "foo"]} :
          service = [StartedService(TRUE, {"s"}, FALSE) EXCEPT !.metadata = md]
    /\ communicator = StartedCommunicator(TRUE, FALSE, <<>>)
    /\ manager = NewManager

\* What the test channel publishes: plain messages and asks, with a subject
\* or without, with a messageId or without.
ReplyTestMetadata ==
    {PlainMetadata, Metadata(FALSE, Undefined, 1, NoId), Metadata(TRUE, "s", 1, NoId),
     Metadata(TRUE, Undefined, 1, NoId), Metadata(TRUE, "s", NoId, NoId)}

\* The additional metadata the listeners hand to ctx.reply.
ReplyExtraMetadata ==
    {PlainMetadata, [PlainMetadata EXCEPT !.isReplyTo = 2], [PlainMetadata EXCEPT !.str = "bar"]}

NextReply ==
    \/ \E md \in ReplyTestMetadata : TestPublish(md)
    \/ \E m \in Msgs : ServiceConsume(m)
    \/ \E m \in Msgs, extra \in ReplyExtraMetadata : ServiceListenerReply(m, extra)
    \/ \E m \in Msgs : ServiceListenerDone(m, "ok")

SpecReply == InitReply /\ [][NextReply]_vars

\* Correlate: a started Service with an ask listener for "s" and a started
\* Communicator with useAsk and an output listener behind one interceptor of
\* the manager.  The application asks; the ask listener replies and returns;
\* the Service also sends plain messages, which go through the chain.
InitCorrelate ==
    /\ InitBroker
    /\ InitApplication
    /\ registered = << <<>> >>
    /\ service = StartedService(FALSE, {"s"}, FALSE)
    /\ communicator =
           StartedCommunicator(TRUE, FALSE, MiddlewareList(<<1>>, <<>>, <<Listener>>))
    /\ manager = [NewManager EXCEPT !.pc = "started", !.isManagerStarted = TRUE,
                                    !.rootMiddlewareList = <<1>>]

\* The ask() calls made while plain messages travel as well.
CorrelateAskIds == 1..(MaxAsks - 1)

NextCorrelate ==
    \/ \E c \in CorrelateAskIds : AskSend(c, "s")
    \/ \E c \in CorrelateAskIds : AskRegister(c)
    \/ \E c \in CorrelateAskIds : AskTimeout(c)
    \/ \E m \in Msgs : ServiceConsume(m)
    \/ \E m \in Msgs : ServiceListenerReply(m, PlainMetadata)
    \/ \E m \in Msgs : ServiceListenerDone(m, "ok")
    \/ ServiceSend
    \/ \E m \in Msgs : CommunicatorConsume(m)
    \/ \E m \in Msgs, b \in {"ok", "next"} : MiddlewareCall(m, b)
    \/ \E m \in Msgs : MiddlewareResume(m, "ok")
    \/ \E m \in Msgs : CommunicatorListenerDone(m)

SpecCorrelate == InitCorrelate /\ [][NextCorrelate]_vars

\* Metadata: a started Service and a started Communicator, each constructed
\* with default metadata.  The application calls send() on both, with and
\* without per-call metadata; the Service's input listener receives what the
\* Communicator sent and returns.
DefaultMetadata ==
    {PlainMetadata, [PlainMetadata EXCEPT !.num = "1"],
     [PlainMetadata EXCEPT !.num = "1", !.str = "foo"]}

\* The per-call metadata: none, a key the defaults may hold, a key of its own.
CallMetadata ==
    {PlainMetadata, [PlainMetadata EXCEPT !.num = "2"], [PlainMetadata EXCEPT !.str = "bar"]}

InitMetadata ==
    /\ InitBroker
    /\ InitApplication
    /\ registered = <<>>
    /\ \E md \in DefaultMetadata :
          service = [StartedService(TRUE, {}, FALSE) EXCEPT !.metadata = md]
    /\ \E md \in DefaultMetadata :
          communicator = [StartedCommunicator(FALSE, FALSE, <<Listener>>)
                             EXCEPT !.metadata = md]
    /\ manager = NewManager

NextMetadata ==
    \/ \E md \in CallMetadata : ServiceSendCall(md)
    \/ \E md \in CallMetadata : CommunicatorSendCall(md)
    \/ \E k \in 1..Len(calls) : CommunicatorSendProceed(k)
    \/ \E m \in Msgs : ServiceConsume(m)
    \/ \E m \in Msgs : ServiceListenerDone(m, "ok")

SpecMetadata == InitMetadata /\ [][NextMetadata]_vars

\* The connection under a channel is lost: the broker returns to the queue
\* every message delivered on the channel and not settled.  The callback that
\* was handling such a message holds the closed channel: its ack and its nack
\* fail and change nothing.
ChannelClosed(ms, queueName) ==
    [k \in 1..Len(ms) |->
        IF ms[k].queue = queueName /\ ms[k].state = "unacked"
        THEN [ms[k] EXCEPT !.state = "ready",
                           !.log = [@ EXCEPT ![Len(@)].outcome =
                                       IF @ = "running" THEN "lost" ELSE @]]
        ELSE ms[k]]

Abandoned(cb, ms, queueName) ==
    [k \in 1..Len(cb) |->
        IF ms[k].queue = queueName /\ ms[k].state = "unacked" THEN IdleCallback ELSE cb[k]]

\* The history records the first reconnect of a consuming channel: its queue
\* and the number of messages published before.
Reconnect(queueName) ==
    [Call("client", "onReconnect", queueName, "returned", Undefined, FALSE)
        EXCEPT !.message = Len(messages)]

Recorded(queueName) == IF calls = <<>> THEN <<Reconnect(queueName)>> ELSE calls

\* Mutant: the input channel's callback asserts and binds, and installs no consumer.
ServiceOnReconnectInputWithoutConsume(s) ==
    [s EXCEPT !.inputChannel = Channel(s.inputQueueName, FALSE)]

\* The onReconnect callback of the Service's input channel: assertExchange,
\* assertQueue, bindQueue, consume.
ServiceOnReconnectInput(s) ==
    [s EXCEPT !.inputChannel = Channel(s.inputQueueName, TRUE)]

\* The onReconnect callback of the Service's output channel: assertExchange,
\* assertQueue, bindQueue.
ServiceOnReconnectOutput(s) ==
    [s EXCEPT !.outputChannel = Channel(s.outputQueueName, FALSE)]

\* The onReconnect callback of the Communicator's input channel.
CommunicatorOnReconnectInput(c) ==
    [c EXCEPT !.inputChannel = Channel(c.inputQueueName, FALSE)]

\* The onReconnect callback of the Communicator's output channel, with consume.
CommunicatorOnReconnectOutput(c) ==
    [c EXCEPT !.outputChannel = Channel(c.outputQueueName, TRUE)]

\* The connection of a started Service's channel is lost.
ServiceChannelLost(direction) ==
    /\ service.pc = "started"
    /\ IF direction = "input"
       THEN /\ service.inputChannel.open
            /\ service' = [service EXCEPT !.inputChannel = NoChannel]
            /\ messages' = ChannelClosed(messages, service.inputQueueName)
            /\ callback' = Abandoned(callback, messages, service.inputQueueName)
       ELSE /\ service.outputChannel.open
            /\ service' = [service EXCEPT !.outputChannel = NoChannel]
            /\ UNCHANGED <<messages, callback>>
    /\ UNCHANGED <<communicator, manager, askCalls, askMap, promises, nextMessageId,
                   registered, settings, calls, communicatorMap>>

\* The client has reconnected and runs the channel's onReconnect callback.
ServiceReconnected(direction) ==
    /\ service.pc = "started"
    /\ IF direction = "input"
       THEN /\ ~service.inputChannel.open
            /\ service' = ServiceOnReconnectInput(service)
            /\ calls' = Recorded(service.inputQueueName)
       ELSE /\ ~service.outputChannel.open
            /\ service' = ServiceOnReconnectOutput(service)
            /\ calls' = calls
    /\ UNCHANGED <<communicator, manager, messages, callback, askCalls, askMap, promises,
                   nextMessageId, registered, settings, communicatorMap>>

\* The connection of a started Communicator's channel is lost.
CommunicatorChannelLost(direction) ==
    /\ communicator.pc = "started"
    /\ IF direction = "output"
       THEN /\ communicator.outputChannel.open
            /\ communicator' = [communicator EXCEPT !.outputChannel = NoChannel]
            /\ messages' = ChannelClosed(messages, communicator.outputQueueName)
            /\ callback' = Abandoned(callback, messages, communicator.outputQueueName)
       ELSE /\ communicator.inputChannel.open
            /\ communicator' = [communicator EXCEPT !.inputChannel = NoChannel]
            /\ UNCHANGED <<messages, callback>>
    /\ UNCHANGED <<service, manager, askCalls, askMap, promises, nextMessageId,
                   registered, settings, calls, communicatorMap>>

\* The client has reconnected and runs the channel's onReconnect callback.
CommunicatorReconnected(direction) ==
    /\ communicator.pc = "started"
    /\ IF direction = "output"
       THEN /\ ~communicator.outputChannel.open
            /\ communicator' = CommunicatorOnReconnectOutput(communicator)
            /\ calls' = Recorded(communicator.outputQueueName)
       ELSE /\ ~communicator.inputChannel.open
            /\ communicator' = CommunicatorOnReconnectInput(communicator)
            /\ calls' = calls
    /\ UNCHANGED <<service, manager, messages, callback, askCalls, askMap, promises,
                   nextMessageId, registered, settings, communicatorMap>>

\* Reconnect: a started Service with an input listener and a Communicator
\* with an output listener, both requeueing or both discarding.  Either the
\* Communicator is not started yet, a test channel publishes into the input
\* queue and the Service's connections are lost and restored, or the
\* Communicator is started, the Service sends and the Communicator's
\* connections are lost and restored: at any time, any number of times.
InitReconnect ==
    /\ InitBroker
    /\ InitApplication
    /\ registered = <<>>
    /\ \E d \in BOOLEAN :
          /\ service = StartedService(TRUE, {}, d)
          /\ \/ communicator = NewCommunicator(FALSE, d, <<Listener>>)
             \/ communicator = StartedCommunicator(FALSE, d, <<Listener>>)
    /\ manager = NewManager

Directions == {"input", "output"}

NextReconnect ==
    \/ /\ communicator.pc = "constructed"
       /\ \/ \E direction \in Directions : ServiceChannelLost(direction)
          \/ \E direction \in Directions : ServiceReconnected(direction)
          \/ TestPublish(PlainMetadata)
          \/ \E m \in Msgs : ServiceConsume(m)
          \/ \E m \in Msgs, o \in {"ok", "throw"} : ServiceListenerDone(m, o)
    \/ /\ communicator.pc = "started"
       /\ \/ \E direction \in Directions : CommunicatorChannelLost(direction)
          \/ \E direction \in Directions : CommunicatorReconnected(direction)
          \/ ServiceSend
          \/ \E m \in Msgs : CommunicatorConsume(m)
          \/ \E m \in Msgs, b \in {"ok", "throw"} : MiddlewareCall(m, b)
          \/ \E m \in Msgs : CommunicatorListenerDone(m)

SpecReconnect == InitReconnect /\ [][NextReconnect]_vars

\* Topology: a Service and a Communicator constructed with a namespace, given
\* or left at its default, and a name; each has its listener.  Both start,
\* both send, both consume what arrives in their queue.
OwnerSettings ==
    {[NoSettings EXCEPT !.passed = TRUE, !.rabbitClient = TRUE, !.name = "p",
                        !.namespace = ns] : ns \in {Undefined, "a"}}

PeerSettings ==
    {[NoSettings EXCEPT !.passed = TRUE, !.rabbitClient = TRUE, !.targetServiceName = name,
                        !.namespace = ns] :
        name \in Names, ns \in {Undefined, "a", DefaultNamespace}}

\* new Service(settings), with the queue names its constructor computes.
ServiceOf(s) ==
    ConstructService(s, QueueName(Namespace(s), s.name, "input"),
                        QueueName(Namespace(s), s.name, "output"))

\* new Communicator(settings), with the queue names its constructor computes.
CommunicatorOf(s) ==
    ConstructCommunicator(s, QueueName(Namespace(s), s.targetServiceName, "input"),
                             QueueName(Namespace(s), s.targetServiceName, "output"))

InitTopology ==
    /\ InitBroker
    /\ InitApplication
    /\ registered = <<>>
    /\ \E s \in OwnerSettings : service = [ServiceOf(s) EXCEPT !.inputListener = TRUE]
    /\ \E s \in PeerSettings :
          communicator = [CommunicatorOf(s) EXCEPT !.outputListener = <<Listener>>]
    /\ manager = NewManager

NextTopology ==
    \/ ServiceStart
    \/ ServiceOutputChannelOpened
    \/ ServiceInputChannelOpened
    \/ CommunicatorStart
    \/ CommunicatorInputChannelOpened
    \/ CommunicatorStarted
    \/ ServiceSendCall(PlainMetadata)
    \/ CommunicatorSendCall(PlainMetadata)
    \/ \E k \in 1..Len(calls) : CommunicatorSendProceed(k)
    \/ \E m \in Msgs : ServiceConsume(m)
    \/ \E m \in Msgs : ServiceListenerDone(m, "ok")
    \/ \E m \in Msgs : CommunicatorConsume(m)
    \/ \E m \in Msgs : MiddlewareCall(m, "ok")
    \/ \E m \in Msgs : CommunicatorListenerDone(m)

SpecTopology == InitTopology /\ [][NextTopology]_vars

\* AskMetadata: a started Communicator with useAsk whose default metadata has
\* none of the keys ask() sets, or some, or all of them; the application
\* calls ask() with per-call metadata of the same kinds.
AskTestMetadata ==
    {PlainMetadata,
     [PlainMetadata EXCEPT !.subject = "x", !.str = "foo"],
     [PlainMetadata EXCEPT !.messageId = 99, !.num = "1"],
     [PlainMetadata EXCEPT !.ask = TRUE, !.subject = "s", !.messageId = 1]}

InitAskMetadata ==
    /\ InitBroker
    /\ InitApplication
    /\ registered = <<>>
    /\ service = StartedService(FALSE, {"s"}, FALSE)
    /\ \E md \in AskTestMetadata :
          communicator = [StartedCommunicator(TRUE, FALSE, <<>>) EXCEPT !.metadata = md]
    /\ manager = NewManager

NextAskMetadata ==
    \/ \E c \in AskIds, subject \in Subjects, md \in AskTestMetadata :
          AskSendWith(c, subject, md)
    \/ \E c \in AskIds : AskRegister(c)
    \/ \E c \in AskIds : AskTimeout(c)

SpecAskMetadata == InitAskMetadata /\ [][NextAskMetadata]_vars

\* TwoPeers: a started Service with an ask listener for "s" and two started
\* Communicators for it, both with useAsk, each requeueing or discarding:
\* the standalone one calls ask(), the one the pool holds under "p" consumes
\* from the same output queue.
InitTwoPeers ==
    /\ InitBroker
    /\ settings = NoSettings
    /\ calls = <<>>
    /\ registered = <<>>
    /\ service = StartedService(FALSE, {"s"}, FALSE)
    /\ \E d \in BOOLEAN : communicator = StartedCommunicator(TRUE, d, <<>>)
    /\ \E d \in BOOLEAN :
          communicatorMap = [name \in Names |->
              IF name = "p" THEN StartedCommunicator(TRUE, d, <<>>) ELSE NoCommunicator]
    /\ manager = [NewManager EXCEPT !.pc = "started", !.isManagerStarted = TRUE]

NextTwoPeers ==
    \/ \E c \in CorrelateAskIds : AskSend(c, "s")
    \/ \E c \in CorrelateAskIds : AskRegister(c)
    \/ \E c \in CorrelateAskIds : AskTimeout(c)
    \/ \E m \in Msgs : ServiceConsume(m)
    \/ \E m \in Msgs : ServiceListenerReply(m, PlainMetadata)
    \/ \E m \in Msgs : ServiceListenerDone(m, "ok")
    \/ \E m \in Msgs : CommunicatorConsume(m)
    \/ \E m \in Msgs : OtherCommunicatorConsume(m, "p")

SpecTwoPeers == InitTwoPeers /\ [][NextTwoPeers]_vars

\* RegisterOptions: a CommunicationsManager just constructed; the application
\* registers peers with options the constructor accepts (defaults, output
\* disabled) or rejects (both directions disabled, discard without input),
\* with and without an output listener.
RegistrationOptions ==
    {NoSettings,
     [NoSettings EXCEPT !.isOutputEnabled = "false"],
     [NoSettings EXCEPT !.isInputEnabled = "false", !.isOutputEnabled = "false"],
     [NoSettings EXCEPT !.isInputEnabled = "false", !.shouldDiscardMessages = "true"]}

NextRegisterOptions ==
    \/ \E name \in Names, s \in RegistrationOptions, l \in {<<>>, <<Listener>>} :
          RegisterCommunicatorWith(name, s, l)
    \/ ManagerStartAll

SpecRegisterOptions == InitManager /\ [][NextRegisterOptions]_vars

\* Dispatch: a Service and a Communicator as start() leaves them, each with
\* the handlers start() accepts: the Service with an input listener, an ask
\* listener for "s", or both; the Communicator with an output listener,
\* useAsk, or both.  A test channel publishes plain messages and asks into
\* the input queue, the Service sends plain messages.
InitDispatch ==
    /\ InitBroker
    /\ InitApplication
    /\ registered = <<>>
    /\ \E l \in BOOLEAN, asks \in {{}, {"s"}} :
          /\ l \/ asks # {}
          /\ service = StartedService(l, asks, FALSE)
    /\ \E useAsk \in BOOLEAN, l \in {<<>>, <<Listener>>} :
          /\ useAsk \/ l # <<>>
          /\ communicator = StartedCommunicator(useAsk, FALSE, l)
    /\ manager = NewManager

NextDispatch ==
    \/ \E md \in {PlainMetadata, Metadata(TRUE, "s", NoId, NoId)} : TestPublish(md)
    \/ ServiceSend
    \/ \E m \in Msgs : ServiceConsume(m)
    \/ \E m \in Msgs : ServiceListenerDone(m, "ok")
    \/ \E m \in Msgs : CommunicatorConsume(m)
    \/ \E m \in Msgs : MiddlewareCall(m, "ok")
    \/ \E m \in Msgs : CommunicatorListenerDone(m)

SpecDispatch == InitDispatch /\ [][NextDispatch]_vars

\* ===================================================================== claims

\* The replies to ask() call c: the output messages answering its messageId.
RepliesTo(c) ==
    {m \in Msgs : /\ messages[m].queue = "output"
                  /\ askCalls[c].pc # "idle"
                  /\ messages[m].envelope.metadata.isReplyTo = askCalls[c].messageId}

\* The Communicator's consume callback has run for message m at least once.
Consumed(m) == messages[m].log # <<>>

\* Message m has left its queue for good: acknowledged, or rejected without
\* requeue.
Gone(m) == messages[m].state \in {"acked", "dropped"}

\* C1: when the Owner's ask listener replied and the Peer has consumed that
\* reply for good before the ask's timeout timer fired, the ask's future is
\* resolved with that reply; and a resolved future always holds a reply whose
\* isReplyTo is the ask's own messageId.
C1_AskResolvesWithOwnReply ==
    \A c \in AskIds :
        /\ \A m \in RepliesTo(c) :
              (Gone(m) /\ promises[c].timer # "fired")
                  => /\ promises[c].state = "resolved"
                     /\ promises[c].value = messages[m].envelope
        /\ promises[c].state = "resolved"
              => promises[c].value.metadata.isReplyTo = askCalls[c].messageId

\* C2: when the timeout timer of an ask fires, its future is rejected with the
\* timeout error, and that step changes no broker message.
C2_TimeoutRejects ==
    [][\A c \in AskIds :
          (promises[c].timer = "armed" /\ promises'[c].timer = "fired")
              => /\ promises'[c].state = "rejected"
                 /\ promises'[c].error = TimeoutError
                 /\ messages' = messages]_vars

\* C2 witness: an ask rejected by its timer while no reply to it was consumed.
C2_Witness ==
    \E c \in AskIds :
        /\ promises[c].timer = "fired"
        /\ promises[c].state = "rejected"
        /\ \A m \in RepliesTo(c) : ~Consumed(m)

\* C3: a settled future never changes again, and the timer of a resolved
\* future never fires.
C3_SettlesOnce ==
    [][\A c \in AskIds :
          /\ promises[c].state # "pending"
                => /\ promises'[c].state = promises[c].state
                   /\ promises'[c].value = promises[c].value
                   /\ promises'[c].error = promises[c].error
          /\ promises[c].state = "resolved" => promises'[c].timer # "fired"]_vars

\* C3 witness: both racing events happened to one ask: its timer fired and
\* rejected it, and its reply was consumed afterwards and acknowledged.
C3_Witness ==
    \E c \in AskIds :
        /\ promises[c].state = "rejected"
        /\ promises[c].timer = "fired"
        /\ \E m \in RepliesTo(c) : messages[m].state = "acked"

\* C4: askMap holds no entry whose future is already settled.
C4_NoSettledEntry ==
    \A id \in MessageIds :
        askMap[id] # NoId => promises[askMap[id]].state = "pending"

\* The discard flag of the endpoint that consumes message m's queue.
Discards(m) ==
    IF messages[m].queue = "input" THEN service.shouldDiscardMessages
    ELSE communicator.shouldDiscardMessages

Log(m) == messages[m].log

\* The latest delivery of m ran function fn's code and that code threw.
Threw(m, fn) == \E k \in 1..Len(messages[m].trace) : messages[m].trace[k] = <<"throw", fn>>

\* C5: every delivery of an input message whose selected handler (the input
\* listener or the ask listener of its subject) completed without error was
\* acknowledged exactly once, not nacked, and the message is settled.
C5_SuccessAcked ==
    \A m \in Msgs :
        messages[m].queue = "input" =>
            \A k \in 1..Len(Log(m)) :
                (Log(m)[k].handler \in {"inputListener", "askListener"}
                    /\ Log(m)[k].outcome = "ok")
                => /\ Log(m)[k].acks = 1
                   /\ Log(m)[k].nacks = <<>>
                   /\ messages[m].state = "acked"

\* C6: a delivery whose handler threw or rejected (the Owner's input or ask
\* listener, the Peer's output listener or an interceptor of its chain) was
\* not acknowledged and was nacked exactly once, with multiple = false and
\* requeue = NOT shouldDiscardMessages.
C6_FailureNacked ==
    \A m \in Msgs :
        /\ \A k \in 1..Len(Log(m)) :
              Log(m)[k].outcome = "throw"
              => /\ Log(m)[k].acks = 0
                 /\ Log(m)[k].nacks = <<[multiple |-> FALSE, requeue |-> ~Discards(m)]>>
        /\ (callback[m].phase = "idle" /\ \E fn \in 0..MaxMiddleware : Threw(m, fn))
              => LastDelivery(m).outcome = "throw"

\* C6 witness: an interceptor of the Peer's chain threw and the message was
\* nacked, while an ask listener of the Owner threw and its message was nacked.
C6_Witness ==
    \E m, n \in Msgs :
        /\ messages[m].queue = "output"
        /\ callback[m].phase = "idle"
        /\ Threw(m, 1)
        /\ Len(LastDelivery(m).nacks) = 1
        /\ messages[n].queue = "input"
        /\ Log(n) # <<>>
        /\ LastDelivery(n).handler = "askListener"
        /\ LastDelivery(n).outcome = "throw"
        /\ Len(LastDelivery(n).nacks) = 1

\* The handler of m failed on the first delivery and on no later one.
FailsOnFirstDeliveryOnly(m) ==
    /\ Log(m) # <<>>
    /\ Log(m)[1].outcome = "throw"
    /\ \A k \in 2..Len(Log(m)) : Log(m)[k].outcome \in {"running", "ok"}

\* C7: a message whose handler fails on the first delivery only is, with
\* shouldDiscardMessages = false, requeued, observed a second time and no
\* more, and acknowledged once the second observation succeeded; with
\* shouldDiscardMessages = true it is observed once and dropped.
C7_RetryOnceOrDiscard ==
    \A m \in Msgs :
        FailsOnFirstDeliveryOnly(m) =>
            IF Discards(m)
            THEN Len(Log(m)) = 1 /\ messages[m].state = "dropped"
            ELSE /\ Len(Log(m)) <= 2
                 /\ messages[m].state # "dropped"
                 /\ (Len(Log(m)) = 1 => messages[m].state = "ready")
                 /\ (Len(Log(m)) = 2 /\ Log(m)[2].outcome = "ok")
                       => /\ messages[m].state = "acked"
                          /\ Log(m)[2].acks = 1

\* A plain message of the input queue whose handler has not failed.
PlainInput(m) ==
    /\ messages[m].queue = "input"
    /\ ~messages[m].envelope.metadata.ask
    /\ \A k \in 1..Len(Log(m)) : Log(m)[k].outcome # "throw"

\* C8: a plain message published into the input queue whose input listener
\* succeeds is never lost, is handed to the input listener at most once, and
\* once the listener has returned it is acknowledged, whatever other
\* invocations are in flight.
C8_DeliveredOnce ==
    \A m \in Msgs :
        PlainInput(m) =>
            /\ Len(Log(m)) <= 1
            /\ messages[m].state \in {"ready", "unacked", "acked"}
            /\ (messages[m].state = "ready") = (Log(m) = <<>>)
            /\ Log(m) # <<>> =>
                  /\ Log(m)[1].handler = "inputListener"
                  /\ (Log(m)[1].outcome = "running") = (messages[m].state = "unacked")
                  /\ Log(m)[1].outcome = "ok" =>
                        /\ messages[m].state = "acked"
                        /\ Log(m)[1].acks = 1
                        /\ Log(m)[1].nacks = <<>>

\* C8 witness: two plain messages were in flight together and the one
\* published later is acknowledged while the earlier one is still running.
C8_Witness ==
    \E m, n \in Msgs :
        /\ m < n
        /\ PlainInput(m) /\ PlainInput(n)
        /\ callback[m].phase = "inputListener"
        /\ messages[n].state = "acked"
        /\ Log(n)[1].acks = 1

\* The interceptors registered so far, in registration order.
Interceptors == [k \in 1..Len(registered) |-> k]

IsGlobal(k) == registered[k] = <<>>

IsScopedToPeer(k) ==
    \E j \in 1..Len(registered[k]) : registered[k][j] = communicator.targetServiceName

\* G1..Gm then S1..Sk, from the history of the applyMiddleware calls.
ExpectedOrder == SelectSeq(Interceptors, IsGlobal) \o SelectSeq(Interceptors, IsScopedToPeer)

Reverse(q) == [k \in 1..Len(q) |-> q[Len(q) + 1 - k]]

IsForward(entry) == entry[1] \in {"before", "listener"}
IsBackward(entry) == entry[1] = "after"
Functions(entries) == [k \in 1..Len(entries) |-> entries[k][2]]

\* The functions whose code before next() ran for m, H included, in run order.
Forward(m) == Functions(SelectSeq(messages[m].trace, IsForward))
\* The interceptors whose code after next() ran for m, in run order.
Backward(m) == Functions(SelectSeq(messages[m].trace, IsBackward))

\* The trace of a message that passes the whole chain and back.
FullPass(order) ==
    [k \in 1..Len(order) |-> <<"before", order[k]>>]
        \o <<<<"listener", Listener>>>>
        \o [k \in 1..Len(order) |-> <<"after", Reverse(order)[k]>>]

\* C9: for a message delivered to peer P the code before next() runs in the
\* order G1, ..., Gm, S1, ..., Sk, H (as far as the chain is entered), the
\* code after next() runs in the reverse order (from the innermost interceptor
\* that resumes), and a message that passes the whole chain and is
\* acknowledged ran exactly G1..Gm, S1..Sk, H, Sk..S1, Gm..G1, in whatever
\* order the global and scoped applyMiddleware calls were made.
C9_MiddlewareOrder ==
    \A m \in Msgs :
        (messages[m].queue = "output" /\ messages[m].envelope.metadata.isReplyTo = NoId) =>
            LET order == ExpectedOrder \o <<Listener>>
                f == Forward(m)
                b == Backward(m)
            IN  /\ Len(f) <= Len(order)
                /\ f = SubSeq(order, 1, Len(f))
                /\ Len(b) < Len(f) \/ b = <<>>
                /\ \E from \in 0..Len(ExpectedOrder) :
                      /\ from >= Len(b)
                      /\ b = Reverse(SubSeq(ExpectedOrder, from - Len(b) + 1, from))
                /\ (messages[m].state = "acked" /\ Len(f) = Len(order))
                      => messages[m].trace = FullPass(ExpectedOrder)

\* C9 witness: a scoped interceptor was applied before a global one, and a
\* message passed the global one, then the scoped one, then H, and back.
C9_Witness ==
    \E m \in Msgs :
        /\ registered = << <<"p">>, <<>> >>
        /\ messages[m].state = "acked"
        /\ messages[m].trace = FullPass(<<2, 1>>)

\* C10: an output message is acknowledged only when its whole chain has
\* completed: no function of the chain is still running or waiting for
\* next(), and the terminal listener did not fail.
C10_AckAfterChain ==
    \A m \in Msgs :
        (messages[m].queue = "output" /\ Log(m) # <<>> /\ LastDelivery(m).acks > 0) =>
            /\ callback[m].phase = "idle"
            /\ messages[m].open = {}
            /\ LastDelivery(m).acks = 1
            /\ ~Threw(m, Listener)

\* C10 witness: a message went through an interceptor and the listener, the
\* interceptor's code after next() ran, and then the message was acknowledged.
C10_Witness ==
    \E m \in Msgs :
        /\ messages[m].state = "acked"
        /\ Len(messages[m].trace) >= 3
        /\ messages[m].trace[Len(messages[m].trace)][1] = "after"

\* The settings object gives the key as false / as true.
IsFalse(v) == v = "false"
IsTrue(v) == v = "true"

\* C19: `new Service(settings)` succeeds if and only if a name is given, not
\* both directions are disabled, a rabbitClient or rabbitOptions is given, and
\* shouldDiscardMessages = true is not combined with isInputEnabled = false;
\* otherwise it throws; either way no channel is opened, no client is created
\* and nothing is published.
C19_ServiceConstructor ==
    service.pc # "none" =>
        /\ service.pc \in {"constructed", "threw"}
        /\ (service.pc = "constructed") =
              (/\ settings.name # Undefined
               /\ ~(IsFalse(settings.isInputEnabled) /\ IsFalse(settings.isOutputEnabled))
               /\ (settings.rabbitClient \/ settings.rabbitOptions)
               /\ ~(IsTrue(settings.shouldDiscardMessages) /\ IsFalse(settings.isInputEnabled)))
        /\ (service.pc = "threw") = (service.error # Undefined)
        /\ service.inputChannel = NoChannel /\ service.outputChannel = NoChannel
        /\ service.rabbitClient = settings.rabbitClient
        /\ messages = <<>>

\* C19 witness: the constructor threw for the discard flag alone: a name and
\* rabbitOptions are given, output is left at its default.
C19_Witness ==
    /\ service.pc = "threw"
    /\ service.error = DiscardError
    /\ settings.isOutputEnabled = Undefined
    /\ ~settings.rabbitClient

\* C20: `new Communicator(settings)` with shouldDiscardMessages = true and
\* settings that are otherwise accepted throws exactly when the output
\* direction, which the Peer consumes, is disabled.
C20_CommunicatorDiscard ==
    (/\ communicator.pc # "none"
     /\ IsTrue(settings.shouldDiscardMessages)
     /\ settings.targetServiceName # Undefined
     /\ (settings.rabbitClient \/ settings.rabbitOptions)
     /\ ~(IsFalse(settings.isInputEnabled) /\ IsFalse(settings.isOutputEnabled)))
    => (communicator.pc = "threw") =
           (IsFalse(settings.isOutputEnabled) /\ ~IsTrue(settings.useAsk))

\* The messages send() call k published into the queue: its data is k.
PublishedBy(k, queueName) ==
    {m \in Msgs : /\ messages[m].queue = queueName
                  /\ ~messages[m].envelope.metadata.ask
                  /\ messages[m].envelope.data = k}

\* The requests published for ask() call c.
RequestsOf(c) ==
    {m \in Msgs : /\ messages[m].queue = "input"
                  /\ messages[m].envelope.metadata.ask
                  /\ messages[m].envelope.data = c}

PeerCalls == {k \in 1..Len(calls) : calls[k].who = "communicator"}
OwnerCalls == {k \in 1..Len(calls) : calls[k].who = "service"}

\* C11: Peer.send and Peer.ask called on a Peer with input enabled before its
\* start() has completed do not fail and publish nothing while the Peer is not
\* started: the calls wait and the input queue stays empty.  Once the Peer is
\* started every waiting call can go on (its next step is enabled, and the
\* polling interval takes it), and a call that went on has published exactly
\* one message.
C11_PendingCallsProceed ==
    communicator.isInputEnabled =>
        /\ \A k \in PeerCalls :
              /\ calls[k].pc \in {"verifyStart", "returned"}
              /\ calls[k].pc = "verifyStart" => PublishedBy(k, "input") = {}
              /\ calls[k].pc = "returned" =>
                    calls[k].published = 1 /\ Cardinality(PublishedBy(k, "input")) = 1
              /\ (calls[k].pc = "verifyStart" /\ communicator.isCommunicatorStarted)
                    => ENABLED CommunicatorSendProceed(k)
        /\ \A c \in AskIds :
              /\ askCalls[c].pc \in {"idle", "verifyStart", "sent", "returned"}
              /\ askCalls[c].pc \in {"idle", "verifyStart"} => RequestsOf(c) = {}
              /\ askCalls[c].pc \in {"sent", "returned"} => Cardinality(RequestsOf(c)) = 1
              /\ (askCalls[c].pc = "verifyStart" /\ communicator.isCommunicatorStarted)
                    => ENABLED AskSend(c, "s")
        /\ ~communicator.isCommunicatorStarted =>
              /\ \A m \in Msgs : messages[m].queue # "input"
              /\ \A k \in PeerCalls : calls[k].pc = "verifyStart"
              /\ \A c \in AskIds : askCalls[c].pc \in {"idle", "verifyStart"}

\* C11 witness: a send() and an ask() were called before the Peer was
\* started, and after its start() completed both have published their message.
C11_Witness ==
    \E k \in PeerCalls, c \in AskIds :
        /\ calls[k].early
        /\ calls[k].pc = "returned"
        /\ Cardinality(PublishedBy(k, "input")) = 1
        /\ askCalls[c].pc = "returned"
        /\ communicator.isCommunicatorStarted

\* The Owner / the Peer has a handler for the direction it consumes.
OwnerHasHandler == service.inputListener \/ service.askListenersMap # {}
PeerHasHandler == communicator.outputListener # <<>> \/ communicator.useAsk

\* C16: start() of an Owner with input enabled and no input or ask listener,
\* and of a Peer with output enabled, no output listener and useAsk = false,
\* throws the startup error and never gets past the check; with a handler
\* registered start() succeeds, and then the queue of every enabled direction
\* is asserted and bound on an open channel.
C16_StartNeedsHandler ==
    /\ service.pc = "failed" =>
          /\ service.isInputEnabled /\ ~OwnerHasHandler
          /\ service.error = ServiceNoListenerError
    /\ (service.isInputEnabled /\ ~OwnerHasHandler) =>
          service.pc \in {"constructed", "openingOutput", "failed"}
    /\ service.pc = "started" =>
          /\ service.isInputEnabled => service.inputChannel = Channel("input", TRUE)
          /\ service.isOutputEnabled => service.outputChannel = Channel("output", FALSE)
    /\ communicator.pc = "failed" =>
          /\ communicator.isOutputEnabled /\ ~PeerHasHandler
          /\ communicator.error = CommunicatorNoListenerError
    /\ (communicator.isOutputEnabled /\ ~PeerHasHandler) =>
          communicator.pc \in {"constructed", "openingInput", "failed"}
    /\ communicator.pc = "started" =>
          /\ communicator.isCommunicatorStarted
          /\ communicator.isInputEnabled =>
                communicator.inputChannel = Channel("input", FALSE)
          /\ communicator.isOutputEnabled =>
                communicator.outputChannel = Channel("output", TRUE)

\* C16 witness: an Owner with only an ask listener has started with both
\* queues bound, and a Peer without listener and without useAsk failed.
C16_Witness ==
    /\ service.pc = "started"
    /\ ~service.inputListener
    /\ service.inputChannel.open /\ service.outputChannel.open
    /\ communicator.pc = "failed"

\* C17: an endpoint with a direction disabled never has a channel for that
\* direction, before or after start(): its queue is never asserted or bound,
\* no consumer is installed on it and the endpoint publishes nothing into it;
\* once started, the channel of each enabled direction is set.
C17_DisabledDirectionUnused ==
    /\ ~service.isInputEnabled => service.inputChannel = NoChannel
    /\ ~service.isOutputEnabled =>
          /\ service.outputChannel = NoChannel
          /\ \A k \in OwnerCalls : calls[k].published = 0
          /\ \A m \in Msgs : messages[m].queue # "output"
    /\ ~communicator.isInputEnabled =>
          /\ communicator.inputChannel = NoChannel
          /\ \A k \in PeerCalls : calls[k].published = 0
          /\ \A m \in Msgs : messages[m].queue # "input"
    /\ ~communicator.isOutputEnabled => communicator.outputChannel = NoChannel
    /\ service.pc = "started" =>
          /\ service.inputChannel.open = service.isInputEnabled
          /\ service.outputChannel.open = service.isOutputEnabled
    /\ communicator.pc = "started" =>
          /\ communicator.inputChannel.open = communicator.isInputEnabled
          /\ communicator.outputChannel.open = communicator.isOutputEnabled

\* C17 witness: an Owner without input and a Peer without input are both
\* started, and each has been asked to send.
C17_Witness ==
    /\ service.pc = "started" /\ ~service.isInputEnabled
    /\ communicator.pc = "started" /\ ~communicator.isInputEnabled
    /\ OwnerCalls # {} /\ PeerCalls # {}

\* C18: send() on an Owner with output disabled, and on a Peer with input
\* disabled, throws the error of the disabled direction at once - it never
\* waits for start - and publishes nothing, before start() and after it.
C18_SendOnDisabledFails ==
    /\ ~service.isOutputEnabled =>
          \A k \in OwnerCalls :
              /\ calls[k].pc = "threw"
              /\ calls[k].error = OutputDisabledError
              /\ calls[k].published = 0
              /\ PublishedBy(k, "output") = {}
    /\ ~communicator.isInputEnabled =>
          \A k \in PeerCalls :
              /\ calls[k].pc = "threw"
              /\ calls[k].error = InputDisabledError
              /\ calls[k].published = 0
              /\ PublishedBy(k, "input") = {}

\* C18 witness: a Peer with input disabled was asked to send before its
\* start() completed and again after it, and an Owner with output disabled
\* would be next.
C18_Witness ==
    /\ ~communicator.isInputEnabled
    /\ Len(calls) = 2
    /\ calls[1].who = "communicator" /\ calls[1].early /\ calls[1].pc = "threw"
    /\ calls[2].who = "communicator" /\ ~calls[2].early /\ calls[2].pc = "threw"

\* The send() and broadcast() calls made on the manager, and the messages
\* published for call k into any queue.
ManagerCalls == {k \in 1..Len(calls) : calls[k].op \in {"send", "broadcast"}
                                        /\ calls[k].who = "manager"}
SendCalls == {k \in ManagerCalls : calls[k].op = "send"}
BroadcastCalls == {k \in ManagerCalls : calls[k].op = "broadcast"}
RegisterCalls == {k \in 1..Len(calls) : calls[k].op = "registerCommunicator"}
PublishedFor(k) == {m \in Msgs : messages[m].envelope.data = k}

\* C12: send() and broadcast() called on the manager before its start() has
\* completed publish nothing while the manager is not marked started: no queue
\* holds a message and every call waits.  The manager is marked started only
\* when every registered Peer has started.  Once it is, every waiting call can
\* go on (its next step is enabled, and the polling interval takes it), every
\* send() it began through a Peer can publish, and a call that returned has
\* published one message per Peer it went through.
C12_ManagerCallsWait ==
    /\ ~manager.isManagerStarted =>
          /\ messages = <<>>
          /\ \A k \in ManagerCalls : calls[k].pc = "verifyStart" /\ calls[k].published = 0
    /\ manager.isManagerStarted =>
          \A name \in RegisteredNames : communicatorMap[name].isCommunicatorStarted
    /\ \A k \in ManagerCalls :
          /\ (calls[k].pc = "verifyStart" /\ manager.isManagerStarted)
                => ENABLED ManagerProceed(k)
          /\ calls[k].pc = "sending" =>
                /\ calls[k].pending # {}
                /\ \A name \in calls[k].pending : ENABLED PoolSendProceed(k, name)
          /\ calls[k].pc = "returned" =>
                /\ calls[k].pending = {}
                /\ calls[k].published = Cardinality(PublishedFor(k))
                /\ calls[k].published =
                      IF calls[k].op = "send" THEN 1 ELSE Cardinality(RegisteredNames)

\* C12 witness: a send() and a broadcast() were called before the manager was
\* started, two Peers are registered, and after start() completed both calls
\* have returned with their messages published.
C12_Witness ==
    /\ manager.isManagerStarted
    /\ RegisteredNames = Names
    /\ \E k \in SendCalls : calls[k].early /\ calls[k].pc = "returned"
    /\ \E k \in BroadcastCalls : calls[k].early /\ calls[k].pc = "returned"
                                   /\ calls[k].published = 2

C15_DuplicateRegistration ==
    [][/\ \A name \in Names :
            (communicatorMap[name].pc # "none" /\ manager'.pc = "constructed")
               => communicatorMap'[name] = communicatorMap[name]
       /\ (Len(calls') > Len(calls) /\ calls'[Len(calls')].op = "registerCommunicator") =>
            /\ calls'[Len(calls')].pc = "threw"
            /\ calls'[Len(calls')].error = AlreadyRegisteredError
            /\ communicatorMap[calls'[Len(calls')].target].pc # "none"
            /\ communicatorMap' = communicatorMap
            /\ manager' = manager]_vars

\* C15 witness: p is registered with an output listener and an interceptor
\* scoped to it, and a second registerCommunicator("p") has thrown.
C15_Witness ==
    /\ communicatorMap["p"].outputListener = <<Listener>>
    /\ manager.specificMiddlewareMap["p"] # <<>>
    /\ \E k \in RegisterCalls : calls[k].target = "p" /\ calls[k].pc = "threw"

\* C21: `new Communicator(settings)` with useAsk = true and settings that are
\* otherwise accepted (a target name, a client or options, no discard flag)
\* succeeds with both directions enabled, whatever isInputEnabled and
\* isOutputEnabled were passed, both false included.
C21_UseAskEnablesBoth ==
    (/\ communicator.pc # "none"
     /\ IsTrue(settings.useAsk)
     /\ settings.targetServiceName # Undefined
     /\ (settings.rabbitClient \/ settings.rabbitOptions)
     /\ ~IsTrue(settings.shouldDiscardMessages))
    => /\ communicator.pc = "constructed"
       /\ communicator.isInputEnabled
       /\ communicator.isOutputEnabled

\* C22: every delivery of an input message by an Owner with a general input
\* listener runs the ask listener of metadata.subject when metadata.ask is
\* set and that subject has a registered ask listener, and runs the general
\* input listener otherwise, an ask for a subject without listener included.
C22_AskDispatch ==
    (service.pc = "started" /\ service.inputListener) =>
        \A m \in Msgs : messages[m].queue = "input" =>
            \A d \in 1..Len(messages[m].log) :
                messages[m].log[d].handler =
                    IF /\ messages[m].envelope.metadata.ask
                       /\ messages[m].envelope.metadata.subject \in service.askListenersMap
                    THEN "askListener"
                    ELSE "inputListener"

\* The ctx.reply calls, and the message call k published: replies are the
\* only calls of SpecReply and the only messages of the output queue there,
\* so the k-th call published the k-th message of the output queue.
ReplyCalls == {k \in 1..Len(calls) : calls[k].op = "reply"}
ReplyOf(k) ==
    CHOOSE r \in Msgs :
        /\ messages[r].queue = "output"
        /\ Cardinality({x \in 1..r : messages[x].queue = "output"}) = k

\* C23: the message published by ctx.reply(data, extra) on a context built
\* for a message with metadata.ask carries isReplyTo equal to that message's
\* messageId, whatever isReplyTo extra holds, and the other keys as send()
\* merges them; on a context built for a message without ask it carries the
\* metadata send() merges from the defaults and extra, so no isReplyTo but
\* the one extra holds.
C23_ReplyStampsIsReplyTo ==
    \A k \in ReplyCalls :
        LET received == messages[calls[k].message].envelope.metadata
            sent == messages[ReplyOf(k)].envelope.metadata
            merged == Spread(service.metadata, calls[k].metadata)
        IN  /\ messages[ReplyOf(k)].envelope.data = messages[calls[k].message].envelope.data
            /\ IF received.ask
               THEN sent = [merged EXCEPT !.isReplyTo = received.messageId]
               ELSE sent = merged

\* C23 witness: an ask with messageId 1 was answered with extra metadata
\* holding isReplyTo 2, and a message without ask was answered with the same
\* extra metadata.
C23_Witness ==
    /\ \E k \in ReplyCalls :
          /\ messages[calls[k].message].envelope.metadata.ask
          /\ messages[calls[k].message].envelope.metadata.messageId = 1
          /\ calls[k].metadata.isReplyTo = 2
          /\ messages[ReplyOf(k)].envelope.metadata.isReplyTo = 1
    /\ \E k \in ReplyCalls :
          /\ ~messages[calls[k].message].envelope.metadata.ask
          /\ calls[k].metadata.isReplyTo = 2
          /\ messages[ReplyOf(k)].envelope.metadata.isReplyTo = 2

\* The messages of the output queue that carry isReplyTo.
Replies == {m \in Msgs : /\ messages[m].queue = "output"
                          /\ messages[m].envelope.metadata.isReplyTo # NoId}

\* C24: the step in which the Peer consumes a message whose isReplyTo has an
\* entry in askMap calls resolve on that entry's future (a pending future
\* becomes resolved with the message and its timer is cleared, a future the
\* timer already rejected stays as it is), removes the entry, acknowledges
\* the message and starts no listener; and no delivery of a message carrying
\* isReplyTo ever runs the output listener or an interceptor.
C24_MatchedReplyBypassesListener ==
    [][/\ \A m \in Replies :
            LET id == messages[m].envelope.metadata.isReplyTo IN
            (Len(messages'[m].log) > Len(messages[m].log) /\ AskMapGet(id) # NoId) =>
                /\ askMap'[id] = NoId
                /\ promises'[askMap[id]] = PromiseResolve(promises[askMap[id]],
                                                          messages[m].envelope)
                /\ promises[askMap[id]].state = "pending" =>
                      /\ promises'[askMap[id]].state = "resolved"
                      /\ promises'[askMap[id]].value = messages[m].envelope
                /\ messages'[m].state = "acked"
                /\ messages'[m].log[Len(messages'[m].log)].acks = 1
                /\ messages'[m].log[Len(messages'[m].log)].nacks = <<>>
                /\ callback' = callback
       /\ \A m \in Replies :
            /\ messages'[m].trace = <<>>
            /\ callback'[m] = IdleCallback
            /\ \A d \in 1..Len(messages'[m].log) :
                  messages'[m].log[d].handler # "outputListener"]_vars

\* C24 witness: a reply resolved its ask and was acknowledged, and a plain
\* message of the same Peer went through the interceptor and the listener.
C24_Witness ==
    /\ \E m \in Replies :
          /\ messages[m].state = "acked"
          /\ askMap[messages[m].envelope.metadata.isReplyTo] = NoId
          /\ \E c \in AskIds : /\ promises[c].state = "resolved"
                                /\ promises[c].value = messages[m].envelope
    /\ \E m \in Msgs :
          /\ messages[m].queue = "output"
          /\ messages[m].state = "acked"
          /\ Len(messages[m].trace) = 3

\* C25: no delivery of a message carrying isReplyTo ends in an error of the
\* consume callback, and none is answered with a nack: a reply without entry
\* in askMap is settled like any reply, never put back into the queue.
C25_UnmatchedReplyIsNoOp ==
    \A m \in Replies :
        /\ messages[m].state # "ready" \/ messages[m].log = <<>>
        /\ \A d \in 1..Len(messages[m].log) :
              /\ messages[m].log[d].outcome # "error"
              /\ messages[m].log[d].nacks = <<>>

\* The metadata of the message send() call k published into the queue.
SentMetadata(k, queueName) ==
    messages[CHOOSE m \in PublishedBy(k, queueName) : TRUE].envelope.metadata

\* The send() calls of the Owner that returned match their published message
\* key by key: the per-call value where the call gave one, the default
\* otherwise.
OwnerMetadataMerged ==
    \A k \in OwnerCalls : calls[k].pc = "returned" =>
        /\ Cardinality(PublishedBy(k, "output")) = 1
        /\ \A key \in DOMAIN PlainMetadata :
              SentMetadata(k, "output")[key] =
                 IF calls[k].metadata[key] # Absent(key)
                 THEN calls[k].metadata[key]
                 ELSE service.metadata[key]
        /\ calls[k].metadata = PlainMetadata =>
              SentMetadata(k, "output") = service.metadata

\* C26: after every step, each message published by Owner.send(data, m)
\* carries, key by key, the value of m where m holds the key and the
\* endpoint's default otherwise, so exactly the defaults when m is empty; and
\* no step changes the endpoint's default metadata.
C26_OwnerSendMergesMetadata ==
    [][OwnerMetadataMerged' /\ service'.metadata = service.metadata]_vars

\* C26 witness: with defaults {num: 1, str: foo} one send() overrode num with
\* 2 and kept str, and one send() without metadata published the defaults.
C26_Witness ==
    /\ service.metadata = [PlainMetadata EXCEPT !.num = "1", !.str = "foo"]
    /\ \E k \in OwnerCalls :
          /\ calls[k].metadata = [PlainMetadata EXCEPT !.num = "2"]
          /\ calls[k].pc = "returned"
          /\ SentMetadata(k, "output") = [PlainMetadata EXCEPT !.num = "2", !.str = "foo"]
    /\ \E k \in OwnerCalls :
          /\ calls[k].metadata = PlainMetadata
          /\ calls[k].pc = "returned"
          /\ SentMetadata(k, "output") = service.metadata

\* C27: a message published by Peer.send(data) without per-call metadata and
\* handed to the Owner's input listener carries metadata equal to the Peer's
\* default metadata: the same keys with the same values, no key more.
C27_PeerDefaultsReceived ==
    \A k \in PeerCalls : calls[k].metadata = PlainMetadata =>
        \A m \in PublishedBy(k, "input") :
            (\E d \in 1..Len(messages[m].log) : messages[m].log[d].handler = "inputListener")
                => messages[m].envelope.metadata = communicator.metadata

\* The Owner and the Peer were built for the same (namespace, name).
SamePair ==
    /\ service.namespace = communicator.namespace
    /\ service.name = communicator.targetServiceName

\* The queue names follow the naming rule, every open channel is bound to
\* its own queue name, and for the same pair the names agree and every message
\* a send() published lies in the queue the other side consumes.
TopologyAgrees ==
    /\ service.inputQueueName = service.namespace \o ":" \o service.name \o ":input"
    /\ service.outputQueueName = service.namespace \o ":" \o service.name \o ":output"
    /\ communicator.inputQueueName =
          communicator.namespace \o ":" \o communicator.targetServiceName \o ":input"
    /\ communicator.outputQueueName =
          communicator.namespace \o ":" \o communicator.targetServiceName \o ":output"
    /\ service.inputChannel.open =>
          service.inputChannel.queue = service.inputQueueName /\ service.inputChannel.consumer
    /\ service.outputChannel.open =>
          service.outputChannel.queue = service.outputQueueName
    /\ communicator.inputChannel.open =>
          communicator.inputChannel.queue = communicator.inputQueueName
    /\ communicator.outputChannel.open =>
          /\ communicator.outputChannel.queue = communicator.outputQueueName
          /\ communicator.outputChannel.consumer
    /\ SamePair =>
          /\ service.inputQueueName = communicator.inputQueueName
          /\ service.outputQueueName = communicator.outputQueueName
          /\ \A k \in PeerCalls : calls[k].pc = "returned" =>
                /\ Cardinality(PublishedBy(k, service.inputQueueName)) = 1
                /\ service.pc = "started" =>
                      \A m \in PublishedBy(k, service.inputQueueName) :
                          messages[m].queue = service.inputChannel.queue
          /\ \A k \in OwnerCalls : calls[k].pc = "returned" =>
                /\ Cardinality(PublishedBy(k, communicator.outputQueueName)) = 1
                /\ communicator.pc = "started" =>
                      \A m \in PublishedBy(k, communicator.outputQueueName) :
                          messages[m].queue = communicator.outputChannel.queue

ScopeNames(scope) == {scope[j] : j \in 1..Len(scope)}

\* The step is no applyMiddleware call and leaves both chains alone, or it is
\* one: the new interceptors are the tail of the history, all with one scope,
\* and they were appended, in order, to the global chain if the scope is empty
\* and otherwise to the chain of each name in the scope; nothing else changed.
AppliedWithinScope ==
    LET old == Len(registered)
        new == SubSeq(Interceptors', old + 1, Len(registered'))
        scope == registered'[Len(registered')]
    IN  IF registered' = registered
        THEN /\ manager'.rootMiddlewareList = manager.rootMiddlewareList
             /\ manager'.specificMiddlewareMap = manager.specificMiddlewareMap
        ELSE /\ SubSeq(registered', 1, old) = registered
             /\ \A k \in old + 1..Len(registered') : registered'[k] = scope
             /\ manager'.rootMiddlewareList =
                   manager.rootMiddlewareList \o (IF scope = <<>> THEN new ELSE <<>>)
             /\ \A name \in Names :
                   manager'.specificMiddlewareMap[name] =
                       manager.specificMiddlewareMap[name] \o
                           (IF name \in ScopeNames(scope) THEN new ELSE <<>>)

\* Every interceptor that ran for a message delivered to the peer is global
\* or has the peer's name in its scope.
RanWithinScope ==
    \A m \in Msgs : \A j \in 1..Len(messages[m].trace) :
        LET entry == messages[m].trace[j] IN
        entry[1] \in {"before", "after"} =>
            \/ IsGlobal(entry[2])
            \/ communicator.targetServiceName \in ScopeNames(registered[entry[2]])

\* C29: an applyMiddleware call without a scope appends its interceptors, in
\* order, to the global chain and changes no name's chain; a call scoped to
\* names appends them, in order, to the chain of each of those names and
\* changes neither the global chain nor any other name's chain; no other step
\* changes a chain; and no interceptor scoped to other names only ever runs
\* for a message delivered to the peer.
C29_MiddlewareScope == [][AppliedWithinScope /\ RanWithinScope']_vars

\* C29 witness: an interceptor was scoped to "q" alone, one to "p" alone, and
\* a message delivered to the peer "p" passed the second and the listener
\* and was acknowledged; the first is in the chain of "q" only.
C29_Witness ==
    \E m \in Msgs :
        /\ registered = << <<"q">>, <<"p">> >>
        /\ communicator.targetServiceName = "p"
        /\ manager.rootMiddlewareList = <<>>
        /\ manager.specificMiddlewareMap = [name \in Names |-> IF name = "q" THEN <<1>> ELSE <<2>>]
        /\ messages[m].state = "acked"
        /\ messages[m].trace = FullPass(<<2>>)

\* The channels of an endpoint are those its first start left, or lost and
\* waiting for the reconnect.
TopologyAsStarted ==
    LET s == StartedService(TRUE, {}, service.shouldDiscardMessages)
        c == StartedCommunicator(FALSE, communicator.shouldDiscardMessages, <<Listener>>)
    IN  /\ service.inputChannel \in {NoChannel, s.inputChannel}
        /\ service.outputChannel \in {NoChannel, s.outputChannel}
        /\ communicator.pc = "started" =>
              /\ communicator.inputChannel \in {NoChannel, c.inputChannel}
              /\ communicator.outputChannel \in {NoChannel, c.outputChannel}

\* A message waiting in a queue whose consuming channel is open can be
\* delivered to the endpoint's callback.
WaitingIsDeliverable ==
    \A m \in Msgs :
        (messages[m].state = "ready" /\ Len(Log(m)) < MaxDeliveries) =>
            /\ (messages[m].queue = "input" /\ service.inputChannel.open)
                  => ENABLED ServiceConsume(m)
            /\ (/\ messages[m].queue = "output"
                /\ communicator.pc = "started"
                /\ communicator.outputChannel.open)
                  => ENABLED CommunicatorConsume(m)

\* Every delivery went to the endpoint's listener; one that ended in success
\* was acknowledged once, one that ended in failure was nacked once with
\* requeue = !shouldDiscardMessages, one cut off by a lost connection or still
\* running has settled nothing.
SettledByRule ==
    \A m \in Msgs : \A k \in 1..Len(Log(m)) :
        LET d == Log(m)[k] IN
        /\ d.handler = IF messages[m].queue = "input" THEN "inputListener" ELSE "outputListener"
        /\ d.outcome \in {"ok", "throw", "lost", "running"}
        /\ d.outcome = "ok" => d.acks = 1 /\ d.nacks = <<>>
        /\ d.outcome = "throw" =>
              d.acks = 0 /\ d.nacks = <<[multiple |-> FALSE, requeue |-> ~Discards(m)]>>
        /\ d.outcome \in {"lost", "running"} => d.acks = 0 /\ d.nacks = <<>>
        /\ d.outcome = "running" => k = Len(Log(m)) /\ messages[m].state = "unacked"
        /\ (k = Len(Log(m)) /\ d.outcome = "ok") => messages[m].state = "acked"
        /\ (k = Len(Log(m)) /\ d.outcome = "throw") =>
              messages[m].state = IF Discards(m) THEN "dropped" ELSE "ready"

\* C30: after any number of lost connections and reconnects, every channel
\* of a started endpoint is lost or is what the first start made it: bound to
\* the same queue, the consuming one with its consumer; a message waiting in
\* a queue whose consumer is installed can be delivered; and every delivery,
\* before or after a reconnect, went to the same listener and was settled by
\* the same rule.
C30_ReconnectKeepsTopology ==
    /\ TopologyAsStarted
    /\ WaitingIsDeliverable
    /\ SettledByRule

\* C30 witness: the Owner's input channel was lost while the listener was
\* handling the first message and has reconnected; the first message was
\* delivered again and acknowledged, and a message published after the
\* reconnect was delivered to the listener, failed, and was nacked.
C30_Witness ==
    /\ calls # <<>>
    /\ calls[1].target = service.inputQueueName
    /\ calls[1].message = 1
    /\ service.inputChannel = Channel("input", TRUE)
    /\ Len(messages) = 2
    /\ messages[1].state = "acked"
    /\ Len(Log(1)) = 2 /\ Log(1)[1].outcome = "lost" /\ Log(1)[2].outcome = "ok"
    /\ messages[2].queue = "input"
    /\ Len(Log(2)) = 1 /\ Log(2)[1].outcome = "throw"
    /\ Len(Log(2)[1].nacks) = 1

\* The messages of the queue of m that are being handled.
InFlight(queueName) ==
    {m \in Msgs : messages[m].queue = queueName /\ messages[m].state = "unacked"}

\* C31: handler invocations for distinct messages of one queue are in flight
\* together, and a step that settles one of them (ack, or nack with or without
\* requeue, in any completion order) changes the broker state and the
\* delivery log of no other message: every step changes at most one message.
C31_IndependentSettlement ==
    [][\A m, n \in Msgs :
          (m # n /\ messages'[m] # messages[m]) => messages'[n] = messages[n]]_vars

\* C31 witness: two messages of the input queue were delivered; the handler
\* of the first failed and the message was nacked, the second is still
\* unacked with its handler running.
C31_Witness ==
    /\ Len(messages) = 2
    /\ messages[1].queue = "input" /\ messages[2].queue = "input"
    /\ Log(1) = <<[handler |-> "inputListener", outcome |-> "throw", acks |-> 0,
                   nacks |-> <<[multiple |-> FALSE, requeue |-> ~service.shouldDiscardMessages]>>]>>
    /\ InFlight("input") = {2}
    /\ Log(2) = <<[handler |-> "inputListener", outcome |-> "running", acks |-> 0,
                   nacks |-> <<>>]>>

\* The request published by ask call c.
RequestOf(c) ==
    {m \in Msgs : messages[m].queue = communicator.inputQueueName
                  /\ messages[m].envelope.data = c}

\* C32: the envelope published by ask call c has ask = true, the subject of
\* the call and a messageId no other request has; that messageId is the one
\* the call holds, and once the call has returned it is the key of the call's
\* entry in askMap - whatever the default and the per-call metadata hold under
\* ask, subject and messageId.
C32_AskEnvelope ==
    \A c \in AskIds :
        askCalls[c].pc \in {"sent", "returned"} =>
            /\ Cardinality(RequestOf(c)) = 1
            /\ \A m \in RequestOf(c) :
                  LET md == messages[m].envelope.metadata IN
                  /\ md.ask = TRUE
                  /\ md.subject = askCalls[c].subject
                  /\ md.messageId # NoId
                  /\ md.messageId = askCalls[c].messageId
                  /\ \A n \in Msgs : n # m => messages[n].envelope.metadata.messageId # md.messageId
                  /\ askCalls[c].pc = "returned" => askMap[md.messageId] = c
                  /\ askCalls[c].pc = "sent" => askMap[md.messageId] = NoId

\* C32 witness: the defaults say ask, subject "s" and messageId 1, the call
\* ask("t", data, {subject: "x", str: "foo"}) has returned; its request holds
\* ask, the subject "t" and the generated messageId the entry is stored under.
C32_Witness ==
    \E c \in AskIds : \E m \in RequestOf(c) :
        /\ communicator.metadata = [PlainMetadata EXCEPT !.ask = TRUE, !.subject = "s", !.messageId = 1]
        /\ askCalls[c].pc = "returned"
        /\ askCalls[c].subject = "t"
        /\ messages[m].envelope.metadata.str = "foo"
        /\ messages[m].envelope.metadata.subject = "t"
        /\ askMap[messages[m].envelope.metadata.messageId] = c

\* The step delivers message m to a consume callback.
ConsumedInStep(m) == Len(messages'[m].log) > Len(messages[m].log)

\* C33: no step consumes a reply while the ask it answers has published its
\* request and not yet stored its entry in askMap.
C33_EntryRegisteredBeforeReply ==
    [][\A m \in Msgs : \A c \in AskIds :
          (/\ ConsumedInStep(m)
           /\ messages[m].queue = communicator.outputQueueName
           /\ askCalls[c].messageId # NoId
           /\ messages[m].envelope.metadata.isReplyTo = askCalls[c].messageId)
              => askCalls[c].pc # "sent"]_vars

\* The step hands reply m to the Peer that did not issue its ask: the ask's
\* entry is in the issuing Peer's table before the step and after it.
ConsumedByOtherPeer(m) ==
    LET id == messages[m].envelope.metadata.isReplyTo IN
    /\ ConsumedInStep(m)
    /\ messages[m].queue = communicator.outputQueueName
    /\ id # NoId
    /\ askMap[id] # NoId
    /\ askMap'[id] = askMap[id]

\* C34: a reply consumed by the Peer that did not issue the ask is neither
\* acknowledged nor discarded by it: after the step the reply waits in the
\* queue again, whatever shouldDiscardMessages is.
C34_ForeignReplyRequeued ==
    [][\A m \in Msgs : ConsumedByOtherPeer(m) => messages'[m].state = "ready"]_vars

\* C35: the step in which the Peer consumes the reply to an ask whose future
\* the timeout has already rejected leaves the future as it is (rejected with
\* the timeout error, no value), starts no listener, acknowledges the reply,
\* and leaves no entry under the ask's messageId.
C35_LateReplyAcked ==
    [][\A c \in AskIds : \A m \in RepliesTo(c) :
          (ConsumedInStep(m) /\ promises[c].state = "rejected") =>
              /\ promises'[c] = promises[c]
              /\ promises'[c].error = TimeoutError
              /\ callback' = callback
              /\ messages'[m].trace = <<>>
              /\ messages'[m].state = "acked"
              /\ askMap'[askCalls[c].messageId] = NoId]_vars

\* C35 witness: the ask timed out, then its reply was consumed at its first
\* delivery: the future is still rejected, the reply acknowledged, the entry gone.
C35_Witness ==
    \E c \in AskIds : \E m \in RepliesTo(c) :
        /\ promises[c].state = "rejected"
        /\ promises[c].timer = "fired"
        /\ Log(m) = <<[handler |-> "reply", outcome |-> "ok", acks |-> 1, nacks |-> <<>>]>>
        /\ messages[m].state = "acked"
        /\ askMap[askCalls[c].messageId] = NoId

\* C36: an endpoint whose start() failed because the enabled consuming
\* direction has no handler holds no channel: neither direction has been
\* opened, asserted or bound.
C36_FailedStartLeavesNothing ==
    /\ (service.pc = "failed" /\ service.error = ServiceNoListenerError) =>
          service.inputChannel = NoChannel /\ service.outputChannel = NoChannel
    /\ (communicator.pc = "failed" /\ communicator.error = CommunicatorNoListenerError) =>
          communicator.inputChannel = NoChannel /\ communicator.outputChannel = NoChannel

\* C37: a registerCommunicator(name, ...) call that throws for a name with no
\* Peer leaves no Peer under that name, so that a later call for the name with
\* defaults is not refused as already registered.
C37_FailedRegistrationLeavesNothing ==
    \A k \in 1..Len(calls) :
        (/\ calls[k].op = "registerCommunicator"
         /\ calls[k].pc = "threw"
         /\ calls[k].error # AlreadyRegisteredError
         /\ \A j \in k + 1..Len(calls) : calls[j].target # calls[k].target)
            => /\ communicatorMap[calls[k].target].pc = "none"
               /\ RegisterCommunicatorError(communicatorMap, calls[k].target,
                                            [NoSettings EXCEPT !.passed = TRUE,
                                                               !.rabbitClient = TRUE,
                                                               !.targetServiceName = calls[k].target],
                                            <<>>) = Undefined

\* Message m is routed to the general handler of its queue's consumer: in the
\* input queue it is no ask with a subject, in the output queue no reply.
ForGeneralHandler(m) ==
    LET md == messages[m].envelope.metadata IN
    IF messages[m].queue = service.inputQueueName
    THEN ~(md.ask /\ md.subject # Undefined)
    ELSE md.isReplyTo = NoId

\* C38: every delivery of a message routed to the general handler found that
\* handler defined: the Owner's input listener for an input message, the
\* Peer's output listener for an output message.
C38_GeneralHandlerDefined ==
    \A m \in Msgs : ForGeneralHandler(m) =>
        \A k \in 1..Len(Log(m)) :
            Log(m)[k].handler =
                IF messages[m].queue = service.inputQueueName THEN "inputListener"
                ELSE "outputListener"

\* The latest delivery of m ended, nothing threw, and the terminal handler
\* did not run: the innermost interceptor entered completed without next().
StoppedByInterceptor(m) ==
    /\ messages[m].queue = communicator.outputQueueName
    /\ messages[m].envelope.metadata.isReplyTo = NoId
    /\ Log(m) # <<>>
    /\ callback[m].phase = "idle"
    /\ \A fn \in 0..MaxMiddleware : ~Threw(m, fn)
    /\ \A k \in 1..Len(messages[m].trace) : messages[m].trace[k][1] # "listener"

\* C39: when an interceptor completed without calling next(), the functions
\* that ran before next() are the chain up to that interceptor and none after
\* it, the terminal handler did not run, the code after next() of every
\* earlier interceptor ran, innermost first, and the message is acknowledged.
C39_InterceptorStopsChain ==
    \A m \in Msgs : StoppedByInterceptor(m) =>
        LET f == Forward(m) IN
        /\ Len(f) \in 1..Len(ExpectedOrder)
        /\ f = SubSeq(ExpectedOrder, 1, Len(f))
        /\ Backward(m) = Reverse(SubSeq(ExpectedOrder, 1, Len(f) - 1))
        /\ LastDelivery(m).outcome = "ok"
        /\ LastDelivery(m).acks = 1
        /\ LastDelivery(m).nacks = <<>>
        /\ messages[m].state = "acked"

\* C39 witness: of two interceptors the second completed without next();
\* the first ran its code after next(), the listener never ran, the message
\* is acknowledged.
C39_Witness ==
    \E m \in Msgs :
        /\ Len(ExpectedOrder) = 2
        /\ StoppedByInterceptor(m)
        /\ messages[m].trace =
              <<<<"before", ExpectedOrder[1]>>, <<"before", ExpectedOrder[2]>>,
                <<"after", ExpectedOrder[1]>>>>
        /\ messages[m].state = "acked"

\* C40: once start() of the Peer, or of the manager, has finished, with
\* success or with a startup error, every send, ask or broadcast call that
\* waits in verifyStart can go on: its next step is enabled.
C40_BlockedCallsSettle ==
    /\ communicator.pc \in {"started", "failed"} =>
          /\ \A k \in PeerCalls :
                calls[k].pc = "verifyStart" => ENABLED CommunicatorSendProceed(k)
          /\ \A c \in AskIds :
                askCalls[c].pc = "verifyStart" => ENABLED AskSend(c, "s")
    /\ manager.pc \in {"started", "failed"} =>
          \A k \in ManagerCalls :
              calls[k].pc = "verifyStart" => ENABLED ManagerProceed(k)

====
